---- MODULE Spec2Model ----
(***************************************************************************)
(* A model of bakingbacon/goledger: the Ledger HID framing codec           *)
(* (apdu.go), the Read loop, the base-58-check codec (crypto.go), the      *)
(* BIP32 path codec and the Tezos application's signing         *)
(* handshake (ledger-apps/tezos).                                          *)
(*                                                                         *)
(* Go values are modelled as follows.                                      *)
(*   []byte     a sequence of 0..255                                       *)
(*   string     a sequence of one-character strings (paths, base-58 text)  *)
(*   error      a string, the error's message; nil is the string "<nil>"   *)
(*   panic      a result whose err field starts with "panic: "             *)
(* A Go slice expression whose bounds leave the slice's length is modelled *)
(* as a panic (capacity equal to length).                                  *)
(***************************************************************************)
EXTENDS Integers, Sequences, FiniteSets, TLC

VARIABLES
    fpc,         \* codec harness: "start", "wrapped", "mutated", "done"
    fin,         \* codec harness: the inputs [channel, payload, sw, size]
    fwrapped,    \* codec harness: what wrapCommandAPDU returned
    fdata,       \* codec harness: the bytes handed to unwrapResponseAPDU
    fmut,        \* codec harness: the header field changed in fdata, if any
    funwrapped,  \* codec harness: what unwrapResponseAPDU returned
    bpc,         \* base-58 harness: "start", "encoded", "tampered", "decoded"
    bin,         \* base-58 harness: the inputs [payload, prefix]
    btext,       \* base-58 harness: the text handed to decode
    btamper,     \* base-58 harness: which checksum byte was changed (0: none)
    bdec,        \* base-58 harness: what decode returned
    bcdec,       \* base-58 harness: what B58cdecode returned
    ppc,         \* path harness: "start", "encoded", "decoded"
    pin,         \* path harness: the segments of the path
    penc,        \* path harness: what encodeBipPath returned
    pdec,        \* path harness: what DecodeBipPath returned
    pc,          \* the caller's position in Read or SignBytes
    BipPath,     \* Ledger.BipPath
    nonBlocking, \* the mode of the device handle (hid's SetNonBlocking)
    devResp,     \* the response the device answered the last command with
    devPending,  \* packets the device has still to send
    devOut,      \* packets sent by the device and not yet read by the host
    io,          \* what the running call did to the device handle, in order
    readResult,  \* Read's local result: the raw bytes read so far
    waited,      \* readData's local: empty reads since its deadline was set
    resp,        \* what the last Read returned
    toSign,      \* SignBytes' argument
    sret,        \* what the last SignBytes returned
    calls,       \* calls of SignBytes or of an operation made so far
    operation,   \* the one-round-trip operation called last and its arguments
    oret,        \* what that operation returned
    cpc,         \* two callers of one Ledger: the position of each
    cresult,     \* two callers: Read's local result of each
    cwaited,     \* two callers: readData's count of empty reads of each
    cret         \* two callers: what the round trip of each returned

frameVars == <<fpc, fin, fwrapped, fdata, fmut, funwrapped>>

b58Vars == <<bpc, bin, btext, btamper, bdec, bcdec>>

pathVars == <<ppc, pin, penc, pdec>>

appVars == <<pc, BipPath, nonBlocking, devResp, devPending, devOut, io,
             readResult, waited, resp, toSign, sret, calls, operation, oret>>

sharedVars == <<cpc, cresult, cwaited, cret>>

vars == <<frameVars, b58Vars, pathVars, appVars, sharedVars>>

(***************************************************************************)
(* Bounds of the model.                                                    *)
(***************************************************************************)
\* longest payload (without status word) given to the codec harness
MaxPayloadLen == 11
\* largest packet size given to the codec harness (the smallest is 0)
MaxPacketSize == 13
\* longest payload given to the base-58 harness
MaxB58PayloadLen == 2
\* longest response payload given to a single Read
MaxReadPayloadLen == 121
\* SignBytes calls made on one Ledger
MaxCalls == 2
\* empty reads after which the deadline of readData has passed
DeadlinePolls == 2

(***************************************************************************)
(* Go helpers.                                                             *)
(***************************************************************************)
nil == "<nil>"

Min(a, b) == IF a < b THEN a ELSE b

Ok(bytes) == [out |-> bytes, err |-> nil]

Fail(msg) == [out |-> <<>>, err |-> msg]

PanicSlice == "panic: runtime error: slice bounds out of range"

PanicIndex == "panic: runtime error: index out of range"

IsPanic(r) == r.err \in {PanicSlice, PanicIndex}

\* errors.Wrap(err, msg): nil stays nil; a panic is not an error value and
\* passes through
errorsWrap(err, msg) ==
    IF err = nil \/ err \in {PanicSlice, PanicIndex} THEN err ELSE msg \o ": " \o err

\* a 16-bit value written low byte first
PutUint16LittleEndian(v) == <<v % 256, (v \div 256) % 256>>

\* binary.BigEndian.PutUint16
PutUint16(v) == <<(v \div 256) % 256, v % 256>>

\* a reading of two bytes that keeps the low byte only
Uint16LowByte(data, offset) == data[offset + 2]

\* binary.BigEndian.Uint16(data[offset:offset+2]), offset counted from 0
Uint16(data, offset) == data[offset + 1] * 256 + data[offset + 2]

\* data[from:to], offsets counted from 0
Slice(data, from, to) == SubSeq(data, from + 1, to)

Zeros(n) == [i \in 1..n |-> 0]

HexDigits == <<"0", "1", "2", "3", "4", "5", "6", "7", "8", "9",
               "a", "b", "c", "d", "e", "f">>

RECURSIVE HexOf(_)
\* the digits of %x
HexOf(v) == IF v < 16 THEN HexDigits[v + 1]
            ELSE HexOf(v \div 16) \o HexDigits[(v % 16) + 1]

\* fmt's %02x
Hex02(v) == IF v < 16 THEN "0" \o HexOf(v) ELSE HexOf(v)

(***************************************************************************)
(* apdu.go: checkFailure.  A Go switch case does not fall through, so the  *)
(* empty case 0x6a84 leaves the switch and the function returns nil.       *)
(***************************************************************************)
checkFailure(code) ==
    IF code # 36864 /\ ((code \div 256) * 256) # 24832
    THEN CASE code = 25732 -> "Are you using the correct targetId?"
           [] code = 27010 -> "Have you uninstalled the existing CA with resetCustomCA first?"
           [] code = 27013 -> "Operation denied by the user"
           [] code = 27264 -> "Level is below safety watermark"
           [] code = 27268 -> nil
           [] code = 27269 -> "Not enough space?"
           [] code = 27267 -> "Maybe this app requires a library to be installed first?"
           [] code = 27392 -> "Incorrect parameters received P1/P2"
           [] code = 27648 -> "Wrong length"
           [] code = 27750 -> "Operation not allowed"
           [] code = 27904 -> "Unsupported Instruction"
           [] code = 28160 -> "Unexpected state of device: verify that the right application is opened?"
           [] code = 28416 -> "Internal technical problem"
           [] code = 37246 -> "Length of command string invalid"
           [] code = 37893 -> "Parse error"
           [] OTHER -> "Unknown status 0x" \o Hex02(code)
    ELSE nil

(***************************************************************************)
(* apdu.go: wrapCommandAPDU.                                               *)
(***************************************************************************)
RECURSIVE wrapLoopShortBudget(_, _, _, _, _, _)
\* a loop that leaves the last byte of every continuation packet unused
wrapLoopShortBudget(channel, command, packetSize, result, offset, sequenceIdx) ==
    IF offset = Len(command) THEN result
    ELSE LET blockSize == Min(Len(command) - offset, packetSize - 4 - 2)
         IN wrapLoopShortBudget(channel, command, packetSize,
                                result \o channel \o <<5>> \o PutUint16(sequenceIdx)
                                       \o Slice(command, offset, offset + blockSize),
                                offset + blockSize,
                                (sequenceIdx + 1) % 65536)

RECURSIVE wrapLoop(_, _, _, _, _, _)
\* the loop of lines 188-209: one continuation packet per turn
wrapLoop(channel, command, packetSize, result, offset, sequenceIdx) ==
    IF offset = Len(command) THEN result
    ELSE LET blockSize == Min(Len(command) - offset, packetSize - 3 - 2)
         IN wrapLoop(channel, command, packetSize,
                     result \o channel \o <<5>> \o PutUint16(sequenceIdx)
                            \o Slice(command, offset, offset + blockSize),
                     offset + blockSize,
                     (sequenceIdx + 1) % 65536)

\* wrapCommandAPDU that leaves the last packet short
wrapPadNone(result, packetSize) == result

\* the padding loop of lines 212-214
wrapPad(result, packetSize) ==
    result \o Zeros((packetSize - (Len(result) % packetSize)) % packetSize)

\* wrapCommandAPDU that numbers the first packet 1
wrapCommandAPDUFromOne(channel, command, packetSize) ==
    IF packetSize < 3 THEN Fail("Can't handle less than 3 bytes")
    ELSE LET blockSize == Min(Len(command), packetSize - 5 - 2)
             head == channel \o <<5>> \o PutUint16(1)
                             \o PutUint16(Len(command) % 65536)
         IN IF blockSize < 0 THEN Fail(PanicSlice)
            ELSE Ok(wrapPad(wrapLoop(channel, command, packetSize,
                                     head \o Slice(command, 0, blockSize),
                                     blockSize, 2),
                            packetSize))

wrapCommandAPDU(channel, command, packetSize) ==
    IF packetSize < 3 THEN Fail("Can't handle less than 3 bytes")
    ELSE LET blockSize == Min(Len(command), packetSize - 5 - 2)
             head == channel \o <<5>> \o PutUint16(0)
                             \o PutUint16(Len(command) % 65536)
         IN IF blockSize < 0 THEN Fail(PanicSlice)
            ELSE Ok(wrapPad(wrapLoop(channel, command, packetSize,
                                     head \o Slice(command, 0, blockSize),
                                     blockSize, 1),
                            packetSize))

(***************************************************************************)
(* apdu.go: unwrapResponseAPDU.                                            *)
(***************************************************************************)
ErrMoreData == "Not enough data"

\* lines 315-326: the status word ends the reassembled bytes
unwrapStatus(result) ==
    LET swOffset == Len(result) - 2
    IN IF swOffset < 0 THEN Fail(PanicIndex)
       ELSE LET sw == result[swOffset + 1] * 256 + result[swOffset + 2]
                err == checkFailure(sw)
            IN IF err # nil THEN Fail(err)
               ELSE Ok(Slice(result, 0, swOffset))

RECURSIVE unwrapLoop(_, _, _, _, _, _, _)
\* the loop of lines 275-313: one continuation packet per turn
unwrapLoop(channel, data, packetSize, responseLength, result, offset, sequenceIdx) ==
    IF ~(Len(result) < responseLength) THEN unwrapStatus(result)
    ELSE LET seq == sequenceIdx + 1
             blockSize == Min(responseLength - Len(result), packetSize - 3 - 2)
         IN IF offset = Len(data) THEN Fail("No data")
            ELSE IF offset + 2 > Len(data) THEN Fail(PanicSlice)
            ELSE IF Slice(data, offset, offset + 2) # channel THEN Fail("Invalid channel")
            ELSE IF offset + 2 >= Len(data) THEN Fail(PanicIndex)
            ELSE IF data[offset + 3] # 5 THEN Fail("Invalid tag")
            ELSE IF offset + 5 > Len(data) THEN Fail(PanicSlice)
            ELSE IF Uint16(data, offset + 3) # seq THEN Fail("Invalid sequence")
            ELSE IF blockSize < 0 \/ offset + 5 + blockSize > Len(data)
                 THEN Fail(PanicSlice)
            ELSE unwrapLoop(channel, data, packetSize, responseLength,
                            result \o Slice(data, offset + 5, offset + 5 + blockSize),
                            offset + 5 + blockSize, seq)

unwrapResponseAPDU(channel, data, packetSize) ==
    IF Len(data) = 0 \/ Len(data) < 5 + 2 + 5 THEN Fail("No data")
    ELSE IF Slice(data, 0, 2) # channel THEN Fail("Invalid channel")
    ELSE IF data[3] # 5 THEN Fail("Invalid tag")
    ELSE IF Uint16(data, 3) # 0 THEN Fail("Invalid sequence")
    ELSE LET responseLength == Uint16(data, 5)
             blockSize == Min(responseLength, packetSize - 5 - 2)
         IN IF Len(data) < 5 + 2 + responseLength THEN Fail(ErrMoreData)
            ELSE IF blockSize < 0 THEN Fail(PanicSlice)
            ELSE unwrapLoop(channel, data, packetSize, responseLength,
                            Slice(data, 7, 7 + blockSize), 7 + blockSize, 0)

(***************************************************************************)
(* crypto/sha256 (FIPS 180-4).  A 32-bit word is a pair <<hi, lo>> of      *)
(* 16-bit halves.                                                           *)
(***************************************************************************)
RECURSIVE bitOp(_, _, _, _)
\* op = 1: exclusive or, op = 2: and, of the n low bits of a and b
bitOp(op, a, b, n) ==
    IF n = 0 THEN 0
    ELSE (IF op = 1 THEN ((a % 2) + (b % 2)) % 2 ELSE (a % 2) * (b % 2))
         + 2 * bitOp(op, a \div 2, b \div 2, n - 1)

xor8 == [a \in 0..255 |-> [b \in 0..255 |-> bitOp(1, a, b, 8)]]

and8 == [a \in 0..255 |-> [b \in 0..255 |-> bitOp(2, a, b, 8)]]

xor16(a, b) == xor8[a \div 256][b \div 256] * 256 + xor8[a % 256][b % 256]

and16(a, b) == and8[a \div 256][b \div 256] * 256 + and8[a % 256][b % 256]

wXor(x, y) == <<xor16(x[1], y[1]), xor16(x[2], y[2])>>

wAnd(x, y) == <<and16(x[1], y[1]), and16(x[2], y[2])>>

wNot(x) == <<65535 - x[1], 65535 - x[2]>>

wAdd(x, y) ==
    LET lo == x[2] + y[2]
        hi == x[1] + y[1] + (lo \div 65536)
    IN <<hi % 65536, lo % 65536>>

rotr16(x, n) ==
    LET p == 2 ^ n
        q == 2 ^ (16 - n)
    IN <<(x[1] \div p) + (x[2] % p) * q, (x[2] \div p) + (x[1] % p) * q>>

rotr(x, n) == IF n >= 16 THEN rotr16(<<x[2], x[1]>>, n - 16) ELSE rotr16(x, n)

shr(x, n) ==
    IF n >= 16 THEN <<0, x[1] \div (2 ^ (n - 16))>>
    ELSE LET p == 2 ^ n
             q == 2 ^ (16 - n)
         IN <<x[1] \div p, (x[2] \div p) + (x[1] % p) * q>>

sha256K ==
  <<
    <<17034, 12184>>, <<28983, 17553>>, <<46528, 64463>>, <<59829, 56229>>,
    <<14678, 49755>>, <<23025, 4593>>, <<37439, 33444>>, <<43804, 24277>>,
    <<55303, 43672>>, <<4739, 23297>>, <<9265, 34238>>, <<21772, 32195>>,
    <<29374, 23924>>, <<32990, 45566>>, <<39900, 1703>>, <<49563, 61812>>,
    <<58523, 27073>>, <<61374, 18310>>, <<4033, 40390>>, <<9228, 41420>>,
    <<11753, 11375>>, <<19060, 33962>>, <<23728, 43484>>, <<30457, 35034>>,
    <<38974, 20818>>, <<43057, 50797>>, <<45059, 10184>>, <<48985, 32711>>,
    <<50912, 3059>>, <<54695, 37191>>, <<1738, 25425>>, <<5161, 10599>>,
    <<10167, 2693>>, <<11803, 8504>>, <<19756, 28156>>, <<21304, 3347>>,
    <<25866, 29524>>, <<30314, 2747>>, <<33218, 51502>>, <<37490, 11397>>,
    <<41663, 59553>>, <<43034, 26187>>, <<49739, 35696>>, <<51052, 20899>>,
    <<53650, 59417>>, <<54937, 1572>>, <<62478, 13701>>, <<4202, 41072>>,
    <<6564, 49430>>, <<7735, 27656>>, <<10056, 30540>>, <<13488, 48309>>,
    <<14620, 3251>>, <<20184, 43594>>, <<23452, 51791>>, <<26670, 28659>>,
    <<29839, 33518>>, <<30885, 25455>>, <<33992, 30740>>, <<36039, 520>>,
    <<37054, 65530>>, <<42064, 27883>>, <<48889, 41975>>, <<50801, 30962>>
  >>

sha256H0 ==
  <<
    <<27145, 58983>>, <<47975, 44677>>, <<15470, 62322>>, <<42319, 62778>>,
    <<20750, 21119>>, <<39685, 26764>>, <<8067, 55723>>, <<23520, 52505>>
  >>

RECURSIVE sha256Schedule(_)
sha256Schedule(w) ==
    IF Len(w) = 64 THEN w
    ELSE LET i == Len(w) + 1
             a == w[i - 15]
             b == w[i - 2]
             s0 == wXor(wXor(rotr(a, 7), rotr(a, 18)), shr(a, 3))
             s1 == wXor(wXor(rotr(b, 17), rotr(b, 19)), shr(b, 10))
         IN sha256Schedule(Append(w, wAdd(wAdd(w[i - 16], s0), wAdd(w[i - 7], s1))))

sha256Round(s, w, k) ==
    LET a == s[1]
        e == s[5]
        S1 == wXor(wXor(rotr(e, 6), rotr(e, 11)), rotr(e, 25))
        ch == wXor(wAnd(e, s[6]), wAnd(wNot(e), s[7]))
        t1 == wAdd(wAdd(wAdd(s[8], S1), wAdd(ch, k)), w)
        S0 == wXor(wXor(rotr(a, 2), rotr(a, 13)), rotr(a, 22))
        maj == wXor(wXor(wAnd(a, s[2]), wAnd(a, s[3])), wAnd(s[2], s[3]))
        t2 == wAdd(S0, maj)
    IN <<wAdd(t1, t2), a, s[2], s[3], wAdd(s[4], t1), e, s[6], s[7]>>

RECURSIVE sha256Rounds(_, _, _)
sha256Rounds(s, w, i) ==
    IF i > 64 THEN s
    ELSE LET t == sha256Round(s, w[i], sha256K[i])
         IN IF Len(t) = 8 THEN sha256Rounds(t, w, i + 1) ELSE t

\* one 64-byte block
sha256Block(h, block) ==
    LET w0 == [i \in 1..16 |-> <<block[4 * i - 3] * 256 + block[4 * i - 2],
                                 block[4 * i - 1] * 256 + block[4 * i]>>]
        s == sha256Rounds(h, sha256Schedule(w0), 1)
    IN [i \in 1..8 |-> wAdd(h[i], s[i])]

RECURSIVE sha256Blocks(_, _)
sha256Blocks(h, padded) ==
    IF Len(padded) = 0 THEN h
    ELSE sha256Blocks(sha256Block(h, SubSeq(padded, 1, 64)),
                      SubSeq(padded, 65, Len(padded)))

sha256Pad(msg) ==
    LET bits == 8 * Len(msg)
        zeros == (119 - (Len(msg) % 64)) % 64
    IN msg \o <<128>> \o [i \in 1..zeros |-> 0]
           \o <<0, 0, 0, 0, (bits \div 16777216) % 256, (bits \div 65536) % 256,
                (bits \div 256) % 256, bits % 256>>

\* the eight words of the state as 32 bytes, most significant first
sha256Bytes(h) ==
    [i \in 1..32 |->
        IF i % 2 = 1 THEN h[((i - 1) \div 4) + 1][(((i - 1) % 4) \div 2) + 1] \div 256
        ELSE h[((i - 1) \div 4) + 1][(((i - 1) % 4) \div 2) + 1] % 256]

\* sha256.Sum256
Sum256(msg) == sha256Bytes(sha256Blocks(sha256H0, sha256Pad(msg)))

(***************************************************************************)
(* Numbers wider than TLC's integers are sequences of digits, most         *)
(* significant first (math/big in crypto.go, int and uint32 in bip32.go).  *)
(***************************************************************************)
\* how many leading elements of s equal z
LeadingCount(s, z) ==
    IF \A i \in 1..Len(s) : s[i] = z THEN Len(s)
    ELSE (CHOOSE i \in 1..Len(s) : s[i] # z /\ \A j \in 1..(i - 1) : s[j] = z) - 1

StripZeros(digits) == SubSeq(digits, LeadingCount(digits, 0) + 1, Len(digits))

RECURSIVE divStep(_, _, _, _, _, _)
divStep(digits, base, d, i, q, r) ==
    IF i > Len(digits) THEN <<q, r>>
    ELSE LET cur == r * base + digits[i]
             q2 == Append(q, cur \div d)
         IN IF Len(q2) = i THEN divStep(digits, base, d, i + 1, q2, cur % d)
            ELSE <<q2, r>>

\* <<quotient, remainder>> of the base-`base` number digits divided by d
DivMod(digits, base, d) == divStep(digits, base, d, 1, <<>>, 0)

RECURSIVE toBase(_, _, _, _)
toBase(n, from, to, acc) ==
    IF n = <<>> THEN acc
    ELSE LET qr == DivMod(n, from, to)
             acc2 == <<qr[2]>> \o acc
         IN IF Len(acc2) > 0 THEN toBase(StripZeros(qr[1]), from, to, acc2)
            ELSE acc2

\* the digits in base `to` of the number with digits `digits` in base `from`,
\* without leading zeros (the empty sequence for zero)
ToBase(digits, from, to) == toBase(StripZeros(digits), from, to, <<>>)

(***************************************************************************)
(* crypto.go: the base-58-check codec.  Text is a sequence of characters.  *)
(***************************************************************************)
alphabet ==
    << "1", "2", "3", "4", "5", "6", "7", "8", "9",
       "A", "B", "C", "D", "E", "F", "G", "H", "J", "K", "L", "M", "N", "P",
       "Q", "R", "S", "T", "U", "V", "W", "X", "Y", "Z",
       "a", "b", "c", "d", "e", "f", "g", "h", "i", "j", "k", "m", "n", "o",
       "p", "q", "r", "s", "t", "u", "v", "w", "x", "y", "z" >>

\* bytes.IndexByte(alphabetBytes, c): -1 when c is not in the alphabet
IndexByte(c) ==
    IF \E i \in 1..58 : alphabet[i] = c
    THEN (CHOOSE i \in 1..58 : alphabet[i] = c) - 1
    ELSE -1

\* the characters of base-58 digits
base58Text(digits) == [i \in 1..Len(digits) |-> alphabet[digits[i] + 1]]

\* btcutil's base58.Encode: the base-58 digits of the bytes read as a number,
\* after one "1" for every leading zero byte
base58Encode(b) ==
    [i \in 1..LeadingCount(b, 0) |-> "1"] \o base58Text(ToBase(b, 256, 58))

\* sha256.Sum256 twice, first four bytes
checksum4(dataBytes) == SubSeq(Sum256(Sum256(dataBytes)), 1, 4)

\* encode from the count of leading zero bytes on: base58.Encode, and one more
\* "1" for every leading zero byte
encodeWithChecksum(dataBytes) ==
    [i \in 1..LeadingCount(dataBytes, 0) |-> "1"] \o base58Encode(dataBytes)

encode(dataBytes) == encodeWithChecksum(dataBytes \o checksum4(dataBytes))

\* B58cencode that leaves the prefix out
B58cencodeNoPrefix(payload, prefix) == encode(payload)

B58cencode(payload, prefix) == encode(prefix \o payload)

b58decode(data) ==
    IF \E i \in 1..Len(data) : IndexByte(data[i]) = -1
    THEN Fail("character not found in alphabet")
    ELSE Ok(ToBase([i \in 1..Len(data) |-> IndexByte(data[i])], 58, 256))

\* decode from the comparison of the checksum on
decodeChecked(data, checksum) ==
    IF checksum # checksum4(data) THEN Fail("data and checksum don't match")
    ELSE Ok(data)

\* decode after b58decode returned r
decodeBytes(zeroCount, r) ==
    IF r.err # nil THEN Fail(r.err)
    ELSE IF Len(r.out) <= 4 THEN Fail("invalid decode length")
    ELSE decodeChecked(Zeros(zeroCount) \o SubSeq(r.out, 1, Len(r.out) - 4),
                       SubSeq(r.out, Len(r.out) - 3, Len(r.out)))

decode(encoded) == decodeBytes(LeadingCount(encoded, "1"), b58decode(encoded))

\* b58c[from:]: slicing past the end panics
sliceFrom(b58c, from) ==
    IF from > Len(b58c) THEN Fail(PanicSlice)
    ELSE Ok(SubSeq(b58c, from + 1, Len(b58c)))

\* the error of decode is dropped
B58cdecode(payload, prefix) == sliceFrom(decode(payload).out, Len(prefix))

(***************************************************************************)
(* The BIP32 path codec.               A path is a sequence of           *)
(* characters; an int or uint32 is a sequence of bytes, most significant   *)
(* first.                                                                  *)
(***************************************************************************)
DigitChars == <<"0", "1", "2", "3", "4", "5", "6", "7", "8", "9">>

IsDigit(c) == \E i \in 1..10 : DigitChars[i] = c

DigitValue(c) == (CHOOSE i \in 1..10 : DigitChars[i] = c) - 1

IsModifier(c) == c \in {"h", "H", "'"}

\* number of digit characters of path from 1-based position i on
DigitRun(path, i) ==
    IF \A j \in i..Len(path) : IsDigit(path[j]) THEN Len(path) - i + 1
    ELSE (CHOOSE j \in i..Len(path) :
              ~IsDigit(path[j]) /\ \A k \in i..(j - 1) : IsDigit(path[k])) - i

RECURSIVE findSections(_, _, _, _)
\* matchSections.FindAllStringSubmatch(path, n) for /(\d+)([hH']?): the
\* leftmost matches, left to right, at most n of them; what lies between two
\* matches is skipped
findSections(path, i, n, acc) ==
    IF n = 0 \/ i > Len(path) THEN acc
    ELSE IF path[i] = "/" /\ DigitRun(path, i + 1) > 0
         THEN LET d == DigitRun(path, i + 1)
                  after == i + 1 + d
                  mod == IF after <= Len(path) /\ IsModifier(path[after])
                         THEN path[after] ELSE ""
                  next == IF mod = "" THEN after ELSE after + 1
                  acc2 == Append(acc, [digits |-> SubSeq(path, i + 1, i + d),
                                       modifier |-> mod])
              IN IF Len(acc2) > 0 THEN findSections(path, next, n - 1, acc2)
                 ELSE acc2
         ELSE findSections(path, i + 1, n, acc)

RECURSIVE StringFrom(_, _)
\* the characters of chars from position i on as one string
StringFrom(chars, i) ==
    IF i > Len(chars) THEN "" ELSE chars[i] \o StringFrom(chars, i + 1)

\* strconv.NumError.Error of Atoi's range error: the function, the quoted
\* input and the cause
AtoiRangeError(digits) ==
    "strconv.Atoi: parsing \"" \o StringFrom(digits, 1) \o "\": value out of range"

\* strconv.Atoi of a string of digits: the value as bytes, or the range error
\* when it does not fit a 64-bit int
Atoi(digits) ==
    LET val == ToBase([i \in 1..Len(digits) |-> DigitValue(digits[i])], 10, 256)
    IN IF Len(val) > 8 \/ (Len(val) = 8 /\ val[1] >= 128)
       THEN Fail(AtoiRangeError(digits))
       ELSE Ok(val)

\* HARDENED = 0x80000000, the top bit of the first of four bytes
HardenedTopByte == 128

\* val >= HARDENED
AtLeastHardened(val) == Len(val) > 4 \/ (Len(val) = 4 /\ val[1] >= HardenedTopByte)

\* val as four bytes, for val < 2^32
FourBytes(val) == Zeros(4 - Len(val)) \o val

\* val + HARDENED as four bytes, for val < HARDENED
AddHardened(val) ==
    LET b == FourBytes(val) IN [b EXCEPT ![1] = b[1] + HardenedTopByte]

\* fmt.Sprintf("%08x", val) for val < 2^32: eight hexadecimal characters
Sprintf08x(bytes4) ==
    [i \in 1..8 |-> LET b == bytes4[(i + 1) \div 2]
                    IN HexDigits[(IF i % 2 = 1 THEN b \div 16 ELSE b % 16) + 1]]

UpperHexDigits == <<"0", "1", "2", "3", "4", "5", "6", "7", "8", "9",
                    "A", "B", "C", "D", "E", "F">>

\* encoding/hex: the characters reverseHexTable has a value for, digits and
\* letters of either case
IsHexChar(c) == \E i \in 1..16 : HexDigits[i] = c \/ UpperHexDigits[i] = c

HexValue(c) == (CHOOSE i \in 1..16 : HexDigits[i] = c \/ UpperHexDigits[i] = c) - 1

\* the printable characters of ASCII, from the space (32) to the tilde (126);
\* the grave accent (96) has no string in the model, its place is empty
AsciiPrintable ==
    << " ", "!", "\"", "#", "$", "%", "&", "'", "(", ")", "*", "+",
       ",", "-", ".", "/", "0", "1", "2", "3", "4", "5", "6", "7",
       "8", "9", ":", ";", "<", "=", ">", "?", "@", "A", "B", "C",
       "D", "E", "F", "G", "H", "I", "J", "K", "L", "M", "N", "O",
       "P", "Q", "R", "S", "T", "U", "V", "W", "X", "Y", "Z", "[",
       "\\", "]", "^", "_", "", "a", "b", "c", "d", "e", "f", "g",
       "h", "i", "j", "k", "l", "m", "n", "o", "p", "q", "r", "s",
       "t", "u", "v", "w", "x", "y", "z", "{", "|", "}", "~" >>

CodePoint(c) == (CHOOSE i \in 1..95 : AsciiPrintable[i] = c) + 31

\* encoding/hex: InvalidByteError.Error, the byte as %#U
InvalidByteError(c) ==
    "encoding/hex: invalid byte: U+00" \o UpperHexDigits[(CodePoint(c) \div 16) + 1]
        \o UpperHexDigits[(CodePoint(c) % 16) + 1] \o " '" \o c \o "'"

ErrLength == "encoding/hex: odd length hex string"

\* hex.DecodeString: two characters a byte, of either case; the first
\* character that is no hexadecimal digit ends it with the bytes decoded so
\* far and InvalidByteError, a single character left over with ErrLength
hexDecode(s) ==
    LET bad == {j \in 1..Len(s) : ~IsHexChar(s[j])}
        n == IF bad = {} THEN Len(s) \div 2
             ELSE ((CHOOSE j \in bad : \A k \in bad : j <= k) - 1) \div 2
        out == [i \in 1..n |-> HexValue(s[2 * i - 1]) * 16 + HexValue(s[2 * i])]
    IN IF bad # {}
       THEN [out |-> out,
             err |-> InvalidByteError(s[CHOOSE j \in bad : \A k \in bad : j <= k])]
       ELSE IF Len(s) % 2 = 1 THEN [out |-> out, err |-> ErrLength]
       ELSE Ok(out)

RECURSIVE encodeSections(_, _, _)
\* the loop of lines 39-64 over the sections found
encodeSections(sections, i, retPath) ==
    IF i > Len(sections) THEN [out |-> retPath, err |-> nil]
    ELSE LET section == sections[i]
             val == Atoi(section.digits)
             hardened == IsModifier(section.modifier)
             word == IF hardened THEN AddHardened(val.out) ELSE FourBytes(val.out)
             retPath2 == retPath \o Sprintf08x(word)
         IN IF val.err # nil THEN Fail(val.err)
            ELSE IF AtLeastHardened(val.out) THEN Fail("Invalid child index")
            ELSE IF ~hardened /\ Len(section.modifier) # 0 THEN Fail("Invalid modifier")
            ELSE IF Len(retPath2) > 0 THEN encodeSections(sections, i + 1, retPath2)
            ELSE Fail("")

encodeBipPath(path) ==
    LET sections == findSections(path, 1, 4, <<>>)
        r == encodeSections(sections, 1, <<"0", "4">>)
        bipPathBytes == hexDecode(r.out)
    IN IF r.err # nil THEN Fail(r.err)
       ELSE IF bipPathBytes.err # nil THEN Fail(bipPathBytes.err)
       ELSE Ok(bipPathBytes.out)

\* fmt's %d of a uint32 given as four bytes
SprintfD(bytes4) ==
    LET digits == ToBase(bytes4, 256, 10)
    IN IF digits = <<>> THEN <<"0">>
       ELSE [i \in 1..Len(digits) |-> DigitChars[digits[i] + 1]]

RECURSIVE decodeSegments(_, _, _, _)
\* the loop of lines 88-99: i counts bytes from 0
decodeSegments(pathBytes, length, i, path) ==
    IF ~(i < length * 4) THEN path
    ELSE LET word == SubSeq(pathBytes, i + 1, i + 4)
             hardened == pathBytes[i + 1] = 128
             v == IF hardened THEN [word EXCEPT ![1] = 0] ELSE word
             path2 == path \o <<"/">> \o SprintfD(v)
                           \o (IF hardened THEN <<"'">> ELSE <<>>)
         IN IF Len(path2) > 0 THEN decodeSegments(pathBytes, length, i + 4, path2)
            ELSE path2

DecodeBipPath(pathBytes) ==
    IF Len(pathBytes) = 0 THEN Fail(PanicIndex)
    ELSE LET length == pathBytes[1]
         IN IF Len(pathBytes) < 1 + length * 4 THEN Fail("Invalid Bip Path Length")
            ELSE Ok(decodeSegments(pathBytes, length, 1, <<>>))

(***************************************************************************)
(* The codec harness: a command (a payload alone, or a payload followed by *)
(* a status word as in a response) is wrapped, one header field of one     *)
(* packet may be changed, and the bytes are unwrapped.                     *)
(***************************************************************************)
\* ledger-app-tezos.go: TEZOS_CHANNEL
TEZOS_CHANNEL == <<1, 1>>

\* apdu.go: the packet size Write and Read use
PacketSize == 64

Channels == {TEZOS_CHANNEL, <<0, 5>>}

PayloadFills == {0, 7}

FramePayloads ==
    { [i \in 1..n |-> (f * i) % 256] : n \in 0..MaxPayloadLen, f \in PayloadFills }

\* every status word of checkFailure's table, the success words, and
\* neighbours of both
StatusWords ==
    { 36864, 24832, 25087,
      25732, 27010, 27013, 27264, 27268, 27269, 27267, 27392, 27648,
      27750, 27904, 28160, 28416, 37246, 37893,
      0, 24831, 25088, 36865, 65535 }

IsSuccessWord(sw) == sw = 36864 \/ sw \div 256 = 97

\* marks a command that is a payload alone
NoStatusWord == -1

FramePacketSizes == (0..MaxPacketSize) \cup {PacketSize}

NoMutation == [packet |-> -1, field |-> "none"]

FrameCommand ==
    IF fin.sw = NoStatusWord THEN fin.payload ELSE fin.payload \o PutUint16(fin.sw)

FrameIdle ==
    /\ fpc = "idle"
    /\ fin = [channel |-> <<>>, payload |-> <<>>, sw |-> 0, size |-> 0]
    /\ fwrapped = Ok(<<>>)
    /\ fdata = <<>>
    /\ fmut = NoMutation
    /\ funwrapped = Ok(<<>>)

\* payloads of 130 bytes, which take three packets of PacketSize bytes
LongPayloads == { [i \in 1..130 |-> (f * i) % 256] : f \in PayloadFills }

FrameStart ==
    /\ fpc = "start"
    /\ fin \in [channel : Channels, payload : FramePayloads,
                sw : StatusWords \cup {NoStatusWord}, size : FramePacketSizes]
                 \cup [channel : Channels, payload : LongPayloads,
                       sw : StatusWords, size : {PacketSize}]
    /\ fwrapped = Ok(<<>>)
    /\ fdata = <<>>
    /\ fmut = NoMutation
    /\ funwrapped = Ok(<<>>)

FrameWrap ==
    /\ fpc = "start"
    /\ fwrapped' = wrapCommandAPDU(fin.channel, FrameCommand, fin.size)
    /\ fdata' = fwrapped'.out
    /\ fpc' = "wrapped"
    /\ UNCHANGED <<fin, fmut, funwrapped, b58Vars, pathVars, appVars, sharedVars>>

\* the values a changed header field may take: any value but the old one
ChangedBytes(old) == {(old + 1) % 256, (old + 128) % 256} \ {old}

\* fdata with the byte at 0-based offset at replaced by b
SetByte(data, at, b) == [data EXCEPT ![at + 1] = b]

\* One field of the header of packet k (counted from 0) is changed.  Only
\* frames that unwrap successfully are changed.
FrameMutate ==
    /\ fpc = "wrapped"
    /\ fwrapped.err = nil
    /\ unwrapResponseAPDU(fin.channel, fdata, fin.size).err = nil
    /\ \E k \in 0..((Len(fdata) \div fin.size) - 1) :
          LET base == k * fin.size
          IN \/ \E at \in {0, 1} : \E b \in ChangedBytes(fdata[base + at + 1]) :
                  /\ fdata' = SetByte(fdata, base + at, b)
                  /\ fmut' = [packet |-> k, field |-> "channel"]
             \/ \E b \in ChangedBytes(fdata[base + 3]) :
                  /\ fdata' = SetByte(fdata, base + 2, b)
                  /\ fmut' = [packet |-> k, field |-> "tag"]
             \/ \E at \in {3, 4} : \E b \in ChangedBytes(fdata[base + at + 1]) :
                  /\ fdata' = SetByte(fdata, base + at, b)
                  /\ fmut' = [packet |-> k, field |-> "sequence"]
    /\ fpc' = "mutated"
    /\ UNCHANGED <<fin, fwrapped, funwrapped, b58Vars, pathVars, appVars,
                   sharedVars>>

FrameUnwrap ==
    /\ fpc \in {"wrapped", "mutated"}
    /\ fwrapped.err = nil
    /\ funwrapped' = unwrapResponseAPDU(fin.channel, fdata, fin.size)
    /\ fpc' = "done"
    /\ UNCHANGED <<fin, fwrapped, fdata, fmut, b58Vars, pathVars, appVars,
                   sharedVars>>


(***************************************************************************)
(* The base-58 harness: a payload is encoded under one of the prefixes of  *)
(* tezos-crypto.go, one byte of the checksum carried by the text may be    *)
(* changed, and the text is decoded.                                       *)
(***************************************************************************)
tz1prefix == <<6, 161, 159>>

tz2prefix == <<6, 161, 161>>

tz3prefix == <<6, 161, 164>>

ktprefix == <<2, 90, 121>>

edskprefix == <<43, 246, 78, 7>>

edsigprefix == <<9, 245, 205, 134, 18>>

sigprefix == <<4, 130, 43>>

edsk2prefix == <<13, 15, 58, 7>>

edpkprefix == <<13, 15, 37, 217>>

edeskprefix == <<7, 90, 60, 179, 41>>

branchprefix == <<1, 52>>

chainidprefix == <<57, 52, 0>>

blockprefix == <<1>>

endorsementprefix == <<2>>

genericopprefix == <<3>>

networkprefix == <<87, 82, 0>>

Prefixes ==
    { tz1prefix, tz2prefix, tz3prefix, ktprefix, edskprefix, edsigprefix,
      sigprefix, edsk2prefix, edpkprefix, edeskprefix, branchprefix,
      chainidprefix, blockprefix, endorsementprefix, genericopprefix,
      networkprefix }

\* payloads of every length up to the bound: all zero bytes, all 0xff bytes,
\* and a zero byte followed by 0xff bytes
ShortPayloads ==
    { [i \in 1..n |-> IF i <= z THEN 0 ELSE 255] : n \in 0..MaxB58PayloadLen,
                                                   z \in {0, 1, MaxB58PayloadLen} }

\* a payload of the length of a public key hash, starting with a zero byte
HashPayload == [i \in 1..20 |-> (53 * (i - 1)) % 256]

B58Payloads == ShortPayloads \cup {HashPayload}

B58Idle ==
    /\ bpc = "idle"
    /\ bin = [payload |-> <<>>, prefix |-> <<>>]
    /\ btext = <<>>
    /\ btamper = 0
    /\ bdec = Ok(<<>>)
    /\ bcdec = Ok(<<>>)

B58Start ==
    /\ bpc = "start"
    /\ bin \in [payload : B58Payloads, prefix : Prefixes]
    /\ btext = <<>>
    /\ btamper = 0
    /\ bdec = Ok(<<>>)
    /\ bcdec = Ok(<<>>)

B58Encode ==
    /\ bpc = "start"
    /\ btext' = B58cencode(bin.payload, bin.prefix)
    /\ bpc' = "encoded"
    /\ UNCHANGED <<bin, btamper, bdec, bcdec, frameVars, pathVars, appVars,
                   sharedVars>>

\* the text that carries the same bytes as text but for the k-th of the last
\* four, which is one higher
TamperChecksum(text, k) ==
    LET ones == LeadingCount(text, "1")
        raw == b58decode(text).out
        at == Len(raw) - 4 + k
        changed == [raw EXCEPT ![at] = (raw[at] + 1) % 256]
        digits == ToBase(changed, 256, 58)
    IN [i \in 1..ones |-> "1"] \o [i \in 1..Len(digits) |-> alphabet[digits[i] + 1]]

B58Tamper ==
    /\ bpc = "encoded"
    /\ \E k \in 1..4 :
          /\ btext' = TamperChecksum(btext, k)
          /\ btamper' = k
    /\ bpc' = "tampered"
    /\ UNCHANGED <<bin, bdec, bcdec, frameVars, pathVars, appVars,
                   sharedVars>>

B58Decode ==
    /\ bpc \in {"encoded", "tampered"}
    /\ bdec' = decode(btext)
    /\ bcdec' = B58cdecode(btext, bin.prefix)
    /\ bpc' = "decoded"
    /\ UNCHANGED <<bin, btext, btamper, frameVars, pathVars, appVars,
                   sharedVars>>

(***************************************************************************)
(* The path harness: a path of four segments is encoded and the bytes are  *)
(* decoded.  A segment is an index in decimal and a hardened marker.       *)
(***************************************************************************)
\* indices below HARDENED
IndicesBelowHardened ==
    { <<"0">>, <<"4", "4">>, <<"1", "7", "2", "9">>,
      <<"1", "6", "7", "7", "7", "2", "1", "5">>,
      <<"1", "6", "7", "7", "7", "2", "1", "6">>,
      <<"2", "1", "4", "7", "4", "8", "3", "6", "4", "7">> }

\* indices from HARDENED on
IndicesFromHardened ==
    { <<"2", "1", "4", "7", "4", "8", "3", "6", "4", "8">>,
      <<"4", "2", "9", "4", "9", "6", "7", "2", "9", "6">> }

Markers == {"", "'", "h", "H"}

AnySegment ==
    [digits : IndicesBelowHardened \cup IndicesFromHardened, modifier : Markers]

FewSegments ==
    { [digits |-> <<"1", "7", "2", "9">>, modifier |-> "'"],
      [digits |-> <<"0">>, modifier |-> ""] }

RECURSIVE PathText(_)
\* the text of a path given by its segments
PathText(segments) ==
    IF segments = <<>> THEN <<>>
    ELSE LET seg == segments[Len(segments)]
         IN PathText(SubSeq(segments, 1, Len(segments) - 1))
              \o <<"/">> \o seg.digits
              \o (IF seg.modifier = "" THEN <<>> ELSE <<seg.modifier>>)

PathIdle ==
    /\ ppc = "idle"
    /\ pin = <<>>
    /\ penc = Ok(<<>>)
    /\ pdec = Ok(<<>>)

PathStart ==
    /\ ppc = "start"
    /\ \E first \in AnySegment, second \in FewSegments, third \in FewSegments,
          fourth \in AnySegment : pin = <<first, second, third, fourth>>
    /\ penc = Ok(<<>>)
    /\ pdec = Ok(<<>>)

PathEncode ==
    /\ ppc = "start"
    /\ penc' = encodeBipPath(PathText(pin))
    /\ ppc' = "encoded"
    /\ UNCHANGED <<pin, pdec, frameVars, b58Vars, appVars,
                   sharedVars>>

PathDecode ==
    /\ ppc = "encoded"
    /\ penc.err = nil
    /\ pdec' = DecodeBipPath(penc.out)
    /\ ppc' = "decoded"
    /\ UNCHANGED <<pin, penc, frameVars, b58Vars, appVars,
                   sharedVars>>

(***************************************************************************)
(* golang.org/x/crypto/blake2b (RFC 7693), unkeyed, as crypto.go's Blake2b *)
(* uses it.  A 64-bit word is a sequence of 8 bytes, least significant     *)
(* first.                                                                  *)
(***************************************************************************)
w64Xor(x, y) ==
    <<xor8[x[1]][y[1]], xor8[x[2]][y[2]], xor8[x[3]][y[3]], xor8[x[4]][y[4]],
      xor8[x[5]][y[5]], xor8[x[6]][y[6]], xor8[x[7]][y[7]], xor8[x[8]][y[8]]>>

RECURSIVE w64AddFrom(_, _, _, _)
\* the bytes of x + y from byte Len(acc) + 1 on, added to acc
w64AddFrom(x, y, carry, acc) ==
    IF Len(acc) = 8 THEN acc
    ELSE w64AddFrom(x, y,
                    (x[Len(acc) + 1] + y[Len(acc) + 1] + carry) \div 256,
                    Append(acc, (x[Len(acc) + 1] + y[Len(acc) + 1] + carry) % 256))

w64Add(x, y) == w64AddFrom(x, y, 0, <<>>)

\* rotation to the right by n bytes
w64RotrBytes(x, n) ==
    <<x[((0 + n) % 8) + 1], x[((1 + n) % 8) + 1], x[((2 + n) % 8) + 1], x[((3 + n) % 8) + 1],
      x[((4 + n) % 8) + 1], x[((5 + n) % 8) + 1], x[((6 + n) % 8) + 1], x[((7 + n) % 8) + 1]>>

\* rotation to the right by 63 bits
w64Rotr63(x) ==
    <<((2 * x[1]) % 256) + (x[8] \div 128), ((2 * x[2]) % 256) + (x[1] \div 128),
      ((2 * x[3]) % 256) + (x[2] \div 128), ((2 * x[4]) % 256) + (x[3] \div 128),
      ((2 * x[5]) % 256) + (x[4] \div 128), ((2 * x[6]) % 256) + (x[5] \div 128),
      ((2 * x[7]) % 256) + (x[6] \div 128), ((2 * x[8]) % 256) + (x[7] \div 128)>>

\* a number below 2^31 as a word
w64Of(n) ==
    <<n % 256, (n \div 256) % 256, (n \div 65536) % 256, (n \div 16777216) % 256,
      0, 0, 0, 0>>

blake2bIV ==
  <<
    <<8, 201, 188, 243, 103, 230, 9, 106>>,
    <<59, 167, 202, 132, 133, 174, 103, 187>>,
    <<43, 248, 148, 254, 114, 243, 110, 60>>,
    <<241, 54, 29, 95, 58, 245, 79, 165>>,
    <<209, 130, 230, 173, 127, 82, 14, 81>>,
    <<31, 108, 62, 43, 140, 104, 5, 155>>,
    <<107, 189, 65, 251, 171, 217, 131, 31>>,
    <<121, 33, 126, 19, 25, 205, 224, 91>>
  >>

blake2bSigma ==
  <<
    <<1, 2, 3, 4, 5, 6, 7, 8, 9, 10, 11, 12, 13, 14, 15, 16>>,
    <<15, 11, 5, 9, 10, 16, 14, 7, 2, 13, 1, 3, 12, 8, 6, 4>>,
    <<12, 9, 13, 1, 6, 3, 16, 14, 11, 15, 4, 7, 8, 2, 10, 5>>,
    <<8, 10, 4, 2, 14, 13, 12, 15, 3, 7, 6, 11, 5, 1, 16, 9>>,
    <<10, 1, 6, 8, 3, 5, 11, 16, 15, 2, 12, 13, 7, 9, 4, 14>>,
    <<3, 13, 7, 11, 1, 12, 9, 4, 5, 14, 8, 6, 16, 15, 2, 10>>,
    <<13, 6, 2, 16, 15, 14, 5, 11, 1, 8, 7, 4, 10, 3, 9, 12>>,
    <<14, 12, 8, 15, 13, 2, 4, 10, 6, 1, 16, 5, 9, 7, 3, 11>>,
    <<7, 16, 15, 10, 12, 4, 1, 9, 13, 3, 14, 8, 2, 5, 11, 6>>,
    <<11, 3, 9, 5, 8, 7, 2, 6, 16, 12, 10, 15, 4, 13, 14, 1>>
  >>

\* the mixing function G on the words q = <<a, b, c, d>>, in eight steps
blake2bGa(q, x) == <<w64Add(w64Add(q[1], q[2]), x), q[2], q[3], q[4]>>

blake2bGd(q, n) == <<q[1], q[2], q[3], w64RotrBytes(w64Xor(q[4], q[1]), n)>>

blake2bGc(q) == <<q[1], q[2], w64Add(q[3], q[4]), q[4]>>

blake2bGb(q, n) ==
    <<q[1],
      IF n = 8 THEN w64Rotr63(w64Xor(q[2], q[3]))
      ELSE w64RotrBytes(w64Xor(q[2], q[3]), n),
      q[3], q[4]>>

blake2bG(q, x, y) ==
    blake2bGb(blake2bGc(blake2bGd(blake2bGa(
        blake2bGb(blake2bGc(blake2bGd(blake2bGa(q, x), 4)), 3), y), 2)), 8)

\* v with the words a, b, c, d replaced by those of q
blake2bPut(v, a, b, c, d, q) ==
    [v EXCEPT ![a] = q[1], ![b] = q[2], ![c] = q[3], ![d] = q[4]]

\* G on the words a, b, c, d of v with the message words m[s[j]], m[s[j + 1]]
blake2bMix(v, m, s, j, a, b, c, d) ==
    blake2bPut(v, a, b, c, d,
               blake2bG(<<v[a], v[b], v[c], v[d]>>, m[s[j]], m[s[j + 1]]))

\* the words the eight applications of G in a round work on: the four
\* columns, then the four diagonals
blake2bLanes ==
    << <<1, 5, 9, 13>>, <<2, 6, 10, 14>>, <<3, 7, 11, 15>>, <<4, 8, 12, 16>>,
       <<1, 6, 11, 16>>, <<2, 7, 12, 13>>, <<3, 8, 9, 14>>, <<4, 5, 10, 15>> >>

RECURSIVE blake2bMixes(_, _, _, _)
\* the applications i to 8 of G in a round
blake2bMixes(v, m, s, i) ==
    IF i > 8 THEN v
    ELSE LET w == blake2bMix(v, m, s, 2 * i - 1, blake2bLanes[i][1],
                             blake2bLanes[i][2], blake2bLanes[i][3],
                             blake2bLanes[i][4])
         IN IF Len(w) = 16 THEN blake2bMixes(w, m, s, i + 1) ELSE w

blake2bRound(v, m, s) == blake2bMixes(v, m, s, 1)

RECURSIVE blake2bRounds(_, _, _)
\* rounds r to 12
blake2bRounds(v, m, r) ==
    IF r > 12 THEN v
    ELSE LET w == blake2bRound(v, m, blake2bSigma[((r - 1) % 10) + 1])
         IN IF Len(w) = 16 THEN blake2bRounds(w, m, r + 1) ELSE w

w64Ones == <<255, 255, 255, 255, 255, 255, 255, 255>>

\* the 16 words of a block of 128 bytes
blake2bWords(block) ==
    <<SubSeq(block, 1, 8), SubSeq(block, 9, 16), SubSeq(block, 17, 24), SubSeq(block, 25, 32),
      SubSeq(block, 33, 40), SubSeq(block, 41, 48), SubSeq(block, 49, 56), SubSeq(block, 57, 64),
      SubSeq(block, 65, 72), SubSeq(block, 73, 80), SubSeq(block, 81, 88), SubSeq(block, 89, 96),
      SubSeq(block, 97, 104), SubSeq(block, 105, 112), SubSeq(block, 113, 120), SubSeq(block, 121, 128)>>

\* h after the 16 working words v
blake2bFold(h, v) ==
    <<w64Xor(w64Xor(h[1], v[1]), v[9]),
      w64Xor(w64Xor(h[2], v[2]), v[10]),
      w64Xor(w64Xor(h[3], v[3]), v[11]),
      w64Xor(w64Xor(h[4], v[4]), v[12]),
      w64Xor(w64Xor(h[5], v[5]), v[13]),
      w64Xor(w64Xor(h[6], v[6]), v[14]),
      w64Xor(w64Xor(h[7], v[7]), v[15]),
      w64Xor(w64Xor(h[8], v[8]), v[16])>>

\* the compression of one block of 128 bytes; t counts the bytes hashed
blake2bCompress(h, block, t, last) ==
    blake2bFold(h,
        blake2bRounds(
            h \o <<blake2bIV[1], blake2bIV[2], blake2bIV[3], blake2bIV[4],
                   w64Xor(blake2bIV[5], w64Of(t)), blake2bIV[6],
                   IF last THEN w64Xor(blake2bIV[7], w64Ones) ELSE blake2bIV[7],
                   blake2bIV[8]>>,
            blake2bWords(block),
            1))

RECURSIVE blake2bBlocks(_, _, _)
\* every block but the last is full; the last is filled up with zero bytes
blake2bBlocks(h, msg, t) ==
    IF Len(msg) <= 128
    THEN blake2bCompress(h, msg \o Zeros(128 - Len(msg)), t + Len(msg), TRUE)
    ELSE LET g == blake2bCompress(h, SubSeq(msg, 1, 128), t + 128, FALSE)
         IN IF Len(g) = 8 THEN blake2bBlocks(g, SubSeq(msg, 129, Len(msg)), t + 128)
            ELSE g

\* the first size bytes of the words of h
blake2bBytes(h, size) == [k \in 1..size |-> h[((k - 1) \div 8) + 1][((k - 1) % 8) + 1]]

\* blake2b.New(size, []byte{}), Write(msg), Sum([]byte{})
blake2bSum(msg, size) ==
    blake2bBytes(
        blake2bBlocks(
            <<w64Xor(blake2bIV[1], <<size, 0, 1, 1, 0, 0, 0, 0>>)>>
                \o SubSeq(blake2bIV, 2, 8),
            msg, 0),
        size)

\* crypto.go: Blake2b
Blake2b(bufferBytes, size) ==
    IF size < 1 \/ size > 64
    THEN [out |-> <<0>>,
          err |-> errorsWrap("blake2b: invalid hash size",
                             "Unable create blake2b hash object")]
    ELSE Ok(blake2bSum(bufferBytes, size))

(***************************************************************************)
(* The Tezos application over the Ledger channel: Write, Read and          *)
(* SignBytes, step by step, against a device that answers a command with a *)
(* framed response, packet by packet, or not at all.                       *)
(***************************************************************************)
\* the instruction class of every Tezos APDU
CLA == 128

\* the instruction code of a signing request
SignBytes == 4

TzApdu(ins, p1, p2, cdata) == [INS |-> ins, P1 |-> p1, P2 |-> p2, CDATA |-> cdata]

MarshalBinary(a) == <<CLA, a.INS, a.P1, a.P2, Len(a.CDATA) % 256>> \o a.CDATA

\* Write up to the call of Dev.Write: the bytes handed to the device
WriteBuffer(apdu, channel) ==
    LET w == wrapCommandAPDU(channel, MarshalBinary(apdu), PacketSize)
    IN IF w.err # nil THEN Fail(errorsWrap(w.err, "Unable to wrap APDU instruction"))
       ELSE Ok(<<0>> \o w.out)

\* Write after Dev.Write returned (b, err)
WriteReturn(b, err) ==
    IF b <= 0 THEN [n |-> 0, err |-> errorsWrap(err, "Failed to write")]
    ELSE [n |-> b, err |-> nil]

\* what Dev.Write may return for a buffer: all of it written, a failure with
\* its error, or nothing written and no error
DevWriteOutcomes(buffer) ==
    { [b |-> Len(buffer), err |-> nil], [b |-> -1, err |-> "hid: write error"],
      [b |-> 0, err |-> nil] }

\* Read after a packet was appended to result: read on, or return
ReadUnwrapped(channel, data) ==
    LET u == unwrapResponseAPDU(channel, data, PacketSize)
    IN IF u.err = nil THEN [more |-> FALSE, ret |-> Ok(u.out)]
       ELSE IF u.err = ErrMoreData THEN [more |-> TRUE, ret |-> Ok(<<>>)]
       ELSE [more |-> FALSE,
             ret |-> Fail(errorsWrap(u.err, "Failed to decode response"))]

\* the response of the device as 64-byte packets, each carrying (for the
\* properties only) the status word of its response
DevicePackets(response) ==
    LET w == wrapCommandAPDU(TEZOS_CHANNEL,
                             response.payload \o PutUint16(response.sw),
                             PacketSize).out
    IN [k \in 1..(Len(w) \div PacketSize) |->
          [data |-> SubSeq(w, (k - 1) * PacketSize + 1, k * PacketSize),
           sw |-> response.sw]]

NoResponse == [payload |-> <<>>, sw |-> -1]

Patterned(n) == [i \in 1..n |-> (37 * i) % 256]

\* the reply to a signing command: an acknowledgement, a signature of 64
\* bytes, a refusal, or 0x6a84
SignResponses ==
    { [payload |-> <<>>, sw |-> 36864],
      [payload |-> Patterned(64), sw |-> 36864],
      [payload |-> <<>>, sw |-> 27013],
      [payload |-> <<>>, sw |-> 27268] }

\* responses to a single Read: the lengths around the packet boundaries
ReadPayloadLens == {0, 1, 55, 56, 57, 114, 115, 119, 120} \cup {MaxReadPayloadLen}

ReadResponses ==
    [payload : {Patterned(n) : n \in ReadPayloadLens}, sw : {36864, 24832, 27013}]

Event(ev, apdu, n, err, sw, on, raw) ==
    [ev |-> ev, apdu |-> apdu, n |-> n, err |-> err, sw |-> sw, on |-> on,
     raw |-> raw]

\* a call of Dev.Write: the command, the bytes handed over and the count
\* returned
WriteEvent(apdu, n, raw) == Event("write", apdu, n, nil, -1, FALSE, raw)

\* a return of Read: its error and the bytes it had read
ReadEvent(err, sw, raw) == Event("read", <<>>, 0, err, sw, FALSE, raw)

ModeEvent(on, r) == Event("mode", <<>>, r, nil, -1, on, <<>>)

NotReturned == [sig |-> <<>>, err |-> "<not returned>", from |-> "none"]

\* paths given to SetBipPath: a valid one and one that encodeBipPath rejects
AppPaths ==
    { PathText(<< [digits |-> <<"4", "4">>, modifier |-> "'"],
                  [digits |-> <<"1", "7", "2", "9">>, modifier |-> "'"],
                  [digits |-> <<"0">>, modifier |-> "'"],
                  [digits |-> <<"0">>, modifier |-> "'"] >>),
      PathText(<< [digits |-> <<"2", "1", "4", "7", "4", "8", "3", "6", "4", "8">>,
                   modifier |-> ""] >>) }

BytesToSign == { <<3, 1, 2>>, Patterned(70), Patterned(300) }

\* the instruction code of the version request
Version == 0

\* the instruction codes of the key and baking requests
AuthBaking == 1

GetPubKey == 2

PromptPubKey == 3

BakingSetup == 10

GetAuthKey == 7

ResetHLW == 6

CommitHash == 9

GetBakingHLW == 11

DeauthBaking == 12

ErrLengthZero == "Returned no data"

ErrLengthMismatch == "Returned data length mismatch"

ErrDecodeLength == "Unable to decode length"

ErrNoBipPath == "No BIP Path is set; Use SetBipPath()"

NoOperation == [name |-> "none", chainId |-> <<>>, hlwm |-> 0, hex |-> <<>>]

\* what an operation returns: its results in front of the error.  s1 and s2
\* are the strings of the operation; GetBakingSetup has the two watermarks
\* in s1 and its string in s2
OpReturn(s1, s2, err) == [s1 |-> s1, s2 |-> s2, err |-> err]

\* an operation returns the error err behind the zero values of its results
OpFail(name, err) ==
    OpReturn(IF name = "GetBakingSetup" THEN <<0, 0>> ELSE <<>>, <<>>, err)

OpNotReturned == OpReturn(<<>>, <<>>, "<not returned>")

\* the 0-based offset in the packets Read received of byte k of the response:
\* the first packet carries 57 bytes behind its 7 header bytes, every later
\* packet 59 bytes behind its 5
ResponseByteOffset(k) ==
    IF k < PacketSize - 7 THEN 7 + k
    ELSE PacketSize * (1 + (k - (PacketSize - 7)) \div (PacketSize - 5))
            + 5 + ((k - (PacketSize - 7)) % (PacketSize - 5))

\* the bytes of the array behind the slice Read returned that follow the
\* payload.  unwrapResponseAPDU appends the blocks of the later packets to the
\* slice of the first in place (line 311), so the response lies unbroken from
\* byte 7 of the array on: behind the payload come the two bytes of the
\* status word, then what the packets held behind the place of the response
SpareBytes(raw) ==
    LET responseLength == Uint16(raw, 5)
    IN << raw[ResponseByteOffset(responseLength - 2) + 1],
          raw[ResponseByteOffset(responseLength - 1) + 1] >>
          \o SubSeq(raw, 7 + responseLength + 1, Len(raw))

\* GetVersion that reports every application as a wallet
GetVersionClassWallet(payload) == <<"W", "a", "l", "l", "e", "t">>

\* lines 91-94 of ledger-app-tezos.go
GetVersionClass(payload) ==
    IF payload[1] = 1 THEN <<"B", "a", "k", "i", "n", "g">>
    ELSE <<"W", "a", "l", "l", "e", "t">>

\* GetVersion after its Read returned payload without error: lines 90-96
GetVersionString(payload) ==
    IF Len(payload) < 4 THEN OpReturn(<<>>, <<>>, PanicIndex)
    ELSE OpReturn(GetVersionClass(payload) \o <<" ">> \o SprintfD(<<payload[2]>>)
                     \o <<".">> \o SprintfD(<<payload[3]>>)
                     \o <<".">> \o SprintfD(<<payload[4]>>),
                  <<>>, nil)

\* binary.BigEndian.PutUint32 of a number below 2^31
PutUint32(v) ==
    <<(v \div 16777216) % 256, (v \div 65536) % 256, (v \div 256) % 256, v % 256>>

\* tezos-crypto.go: pkhFromPkBytes
pkhOfHash(pkh) ==
    IF pkh.err # nil THEN Fail(pkh.err)
    ELSE Ok(B58cencode(pkh.out, tz1prefix))

pkhFromPkBytes(pk) ==
    CHOOSE r \in {pkhOfHash(pkh) : pkh \in {Blake2b(pk, 20)}} : TRUE

\* the values getKey, SetupBaking and AuthorizeBaking return for the key
\* string pk and the outcome pkh of pkhFromPkBytes
KeyReturn(pk, pkh) == OpReturn(pk, pkh.out, pkh.err)

\* the end of getKey, SetupBaking and AuthorizeBaking: the key and its hash
KeyStringsOf(key) ==
    CHOOSE r \in {KeyReturn(B58cencode(key, edpkprefix), pkh) :
                     pkh \in {pkhFromPkBytes(key)}} : TRUE

\* the public key of the device of the model
DeviceKey == Patterned(32)

\* the strings of the key of the device, computed once
DeviceKeyStrings == KeyStringsOf(DeviceKey)

KeyStrings(key) ==
    IF key = DeviceKey THEN DeviceKeyStrings ELSE KeyStringsOf(key)

\* a parse of the key response that trusts the length byte
KeyResultLengthTrusted(payload, spare, checkZero) ==
    LET first == IF Len(payload) >= 1 THEN payload[1] ELSE spare[1]
    IN IF Len(payload) < 2 THEN OpReturn(<<>>, <<>>, PanicSlice)
       ELSE IF checkZero /\ first = 0 THEN OpReturn(<<>>, <<>>, ErrLengthZero)
       ELSE KeyStrings(SubSeq(payload, 3, Len(payload)))

\* getKey (checkZero), SetupBaking and AuthorizeBaking after Read returned
\* payload without error.  binary.Uvarint(resp[:1]) reads one byte, which for
\* an empty payload is the byte behind it in spare, and decodes it only when
\* it is below 0x80; resp[1:] and resp[2:] panic when the payload is shorter.
KeyResult(payload, spare, checkZero) ==
    LET first == IF Len(payload) >= 1 THEN payload[1] ELSE spare[1]
    IN IF first >= 128 THEN OpReturn(<<>>, <<>>, ErrDecodeLength)
       ELSE IF Len(payload) < 1 THEN OpReturn(<<>>, <<>>, PanicSlice)
       ELSE IF first # Len(payload) - 1 THEN OpReturn(<<>>, <<>>, ErrLengthMismatch)
       ELSE IF checkZero /\ first = 0 THEN OpReturn(<<>>, <<>>, ErrLengthZero)
       ELSE IF Len(payload) < 2 THEN OpReturn(<<>>, <<>>, PanicSlice)
       ELSE KeyStrings(SubSeq(payload, 3, Len(payload)))

\* the operations that return at once when no path is stored
NeedsBipPath(name) ==
    name \in {"GetPublicKey", "GetPublicKeyWithPrompt", "SetupBaking",
              "AuthorizeBaking"}

\* the data of the command of SetupBaking: lines 202-213
SetupBakingCdata(chainIdBytes, hlwm) ==
    IF chainIdBytes.err # nil THEN chainIdBytes
    ELSE Ok(chainIdBytes.out \o PutUint32(hlwm) \o PutUint32(hlwm)
                \o BipPath)

\* the chain id of the Tezos main network
MainnetChainId ==
    <<"N", "e", "t", "X", "d", "Q", "p", "r", "c", "V", "k", "p", "a", "W", "U">>

\* its bytes, computed once
MainnetChainIdBytes == B58cdecode(MainnetChainId, networkprefix)

SetupBakingData(o) ==
    CHOOSE cdata \in
        {SetupBakingCdata(chainIdBytes, o.hlwm) :
            chainIdBytes \in {IF o.chainId = MainnetChainId THEN MainnetChainIdBytes
                              ELSE B58cdecode(o.chainId, networkprefix)}} : TRUE

\* the command of SetupBaking around its data
SetupBakingApdu(cdata) ==
    [apdu |-> TzApdu(BakingSetup, 0, 0, cdata.out), err |-> cdata.err]

\* the command an operation writes, or the panic that keeps it from writing
OperationApdu(o) ==
    CASE o.name = "GetVersion" ->
            [apdu |-> TzApdu(Version, 0, 0, <<>>), err |-> nil]
      [] o.name = "GetPublicKey" ->
            [apdu |-> TzApdu(GetPubKey, 0, 0, BipPath), err |-> nil]
      [] o.name = "GetPublicKeyWithPrompt" ->
            [apdu |-> TzApdu(PromptPubKey, 0, 0, BipPath), err |-> nil]
      [] o.name = "AuthorizeBaking" ->
            [apdu |-> TzApdu(AuthBaking, 0, 0, BipPath), err |-> nil]
      [] o.name = "GetAuthorizedKeyPath" ->
            [apdu |-> TzApdu(GetAuthKey, 0, 0, <<>>), err |-> nil]
      [] o.name = "GetCommitHash" ->
            [apdu |-> TzApdu(CommitHash, 0, 0, <<>>), err |-> nil]
      [] o.name = "DeauthorizeBaking" ->
            [apdu |-> TzApdu(DeauthBaking, 0, 0, <<>>), err |-> nil]
      [] o.name = "ResetBakingHLW" ->
            [apdu |-> TzApdu(ResetHLW, 0, 0, PutUint32(o.hlwm)), err |-> nil]
      [] o.name = "GetBakingSetup" ->
            [apdu |-> TzApdu(GetBakingHLW, 0, 0, <<>>), err |-> nil]
      [] o.name = "SetupBaking" ->
            CHOOSE cmd \in {SetupBakingApdu(cdata) : cdata \in {SetupBakingData(o)}} :
                TRUE

\* what an operation returns when its Write failed with err
OperationWriteError(name, err) ==
    CASE name = "GetVersion" -> errorsWrap(err, "Unable to get version")
      [] name = "GetCommitHash" -> errorsWrap(err, "Unable to write commit hash")
      [] name \in {"GetPublicKey", "GetPublicKeyWithPrompt"} ->
            errorsWrap(err, "Unable to write key request")
      [] name \in {"SetupBaking", "AuthorizeBaking", "DeauthorizeBaking",
                   "ResetBakingHLW", "GetBakingSetup", "GetAuthorizedKeyPath"} -> err

\* what an operation returns when its Read failed with err
OperationReadError(name, err) ==
    CASE name = "GetVersion" -> errorsWrap(err, "Unable to get version")
      [] name \in {"GetPublicKey", "GetPublicKeyWithPrompt"} ->
            errorsWrap(err, "Unable to read key request")
      [] name = "GetCommitHash" -> errorsWrap(err, "Unable to get commit hash")
      [] name = "SetupBaking" ->
            errorsWrap(err, "Unable to read baking setup response")
      [] name = "DeauthorizeBaking" -> errorsWrap(err, "Unable to read deauth reply")
      [] name = "ResetBakingHLW" -> errorsWrap(err, "Unable to read reset HLW reply")
      [] name = "GetBakingSetup" -> errorsWrap(err, "Unable to read HLW reply")
      [] name \in {"AuthorizeBaking", "GetAuthorizedKeyPath"} ->
            errorsWrap(err, "Unable to read auth request")

\* GetAuthorizedKeyPath after its Read returned payload without error: lines
\* 419-425
GetAuthorizedKeyPathResult(payload) ==
    CHOOSE r \in {OpReturn(d.out, <<>>, d.err) : d \in {DecodeBipPath(payload)}} : TRUE

\* binary.BigEndian.Uint32 of the four bytes of data from 0-based offset on
Uint32(data, offset) ==
    ((data[offset + 1] * 256 + data[offset + 2]) * 256 + data[offset + 3]) * 256
        + data[offset + 4]

\* the chain id the device of the model reports: MAINNET_CHAINID
DeviceChainId == <<122, 6, 167, 112>>

\* its text, computed once
DeviceChainIdText == B58cencode(DeviceChainId, networkprefix)

ChainIdText(bytes) ==
    IF bytes = DeviceChainId THEN DeviceChainIdText
    ELSE B58cencode(bytes, networkprefix)

\* GetBakingSetup after its Read returned payload without error: lines
\* 382-396
GetBakingSetupResult(payload) ==
    IF Len(payload) < 12 THEN OpReturn(<<0, 0>>, <<>>, "Not enough data returned")
    ELSE CHOOSE r \in
            { OpReturn(<<Uint32(payload, 0), Uint32(payload, 4)>>, chainId, nil) :
                 chainId \in {ChainIdText(SubSeq(payload, 9, 12))} } : TRUE

\* what an operation makes of the payload its Read returned; spare are the
\* bytes that follow the payload in the array behind it.  GetCommitHash
\* returns the payload as a string, byte for byte; DeauthorizeBaking and
\* ResetBakingHLW drop it
OperationResult(name, payload, spare) ==
    CASE name = "GetVersion" -> GetVersionString(payload)
      [] name = "GetCommitHash" -> OpReturn(payload, <<>>, nil)
      [] name = "GetAuthorizedKeyPath" -> GetAuthorizedKeyPathResult(payload)
      [] name \in {"DeauthorizeBaking", "ResetBakingHLW"} -> OpReturn(<<>>, <<>>, nil)
      [] name = "GetBakingSetup" -> GetBakingSetupResult(payload)
      [] name \in {"GetPublicKey", "GetPublicKeyWithPrompt", "SetupBaking",
                   "AuthorizeBaking"} ->
            KeyResult(payload, spare,
                      name \in {"GetPublicKey", "GetPublicKeyWithPrompt"})

\* the replies of the device to a key or baking request: a key of 32 bytes
\* behind its length byte, a wrong length byte, a byte that is no length, the
\* length byte 0, no payload, and a refusal
KeyResponses ==
    { [payload |-> <<33, 2>> \o DeviceKey, sw |-> 36864],
      [payload |-> <<5, 2, 1>>, sw |-> 36864],
      [payload |-> <<200, 2, 1>>, sw |-> 36864],
      [payload |-> <<0>>, sw |-> 36864],
      [payload |-> <<>>, sw |-> 36864],
      [payload |-> <<>>, sw |-> 27013] }

\* the replies of the device to the version request
VersionResponses ==
    { [payload |-> <<1, 2, 2, 9>>, sw |-> 36864],
      [payload |-> <<0, 2, 2, 9>>, sw |-> 36864],
      [payload |-> <<2, 0, 10, 255>>, sw |-> 24832],
      [payload |-> <<1, 2, 2>>, sw |-> 36864],
      [payload |-> <<>>, sw |-> 36864],
      [payload |-> <<>>, sw |-> 27904] }

\* the replies of the device to the request for the authorized path: a path
\* of four segments, a count byte with too few bytes behind it, the count
\* byte 0, no payload, and a refusal
AuthKeyResponses ==
    { [payload |-> <<4, 128, 0, 0, 44, 128, 0, 6, 193, 128, 0, 0, 0, 128, 0, 0, 0>>,
       sw |-> 36864],
      [payload |-> <<4, 128>>, sw |-> 36864],
      [payload |-> <<0>>, sw |-> 36864],
      [payload |-> <<>>, sw |-> 36864],
      [payload |-> <<>>, sw |-> 27013] }

\* the replies of the device to the request for the commit hash: the text
\* b28c2364 with the zero byte that ends it, no payload, and a refusal
CommitHashResponses ==
    { [payload |-> <<98, 50, 56, 99, 50, 51, 54, 52, 0>>, sw |-> 36864],
      [payload |-> <<>>, sw |-> 36864],
      [payload |-> <<>>, sw |-> 27904] }

\* the replies of the device to DeauthorizeBaking and ResetBakingHLW: done,
\* or refused
DoneResponses ==
    { [payload |-> <<>>, sw |-> 36864],
      [payload |-> <<>>, sw |-> 27013] }

\* the replies of the device to the request for the baking setup: the two
\* watermarks and the chain id, the same with a byte more, with a byte
\* less, no payload, and a refusal
BakingSetupResponses ==
    { [payload |-> PutUint32(655360) \o PutUint32(7) \o DeviceChainId, sw |-> 36864],
      [payload |-> PutUint32(655360) \o PutUint32(7) \o DeviceChainId \o <<0>>,
       sw |-> 36864],
      [payload |-> PutUint32(655360) \o PutUint32(7) \o <<122, 6, 167>>, sw |-> 36864],
      [payload |-> <<>>, sw |-> 36864],
      [payload |-> <<>>, sw |-> 27013] }

\* the replies of the device to the command of an operation
OperationResponses(name) ==
    CASE name = "GetVersion" -> VersionResponses
      [] name = "GetCommitHash" -> CommitHashResponses
      [] name = "GetAuthorizedKeyPath" -> AuthKeyResponses
      [] name \in {"DeauthorizeBaking", "ResetBakingHLW"} -> DoneResponses
      [] name = "GetBakingSetup" -> BakingSetupResponses
      [] name \in {"GetPublicKey", "GetPublicKeyWithPrompt", "SetupBaking",
                   "AuthorizeBaking"} -> KeyResponses

\* the operations called and their arguments
Operations ==
    { [NoOperation EXCEPT !.name = n] :
          n \in {"GetVersion", "GetCommitHash", "GetPublicKey",
                 "GetPublicKeyWithPrompt", "AuthorizeBaking", "DeauthorizeBaking",
                 "GetBakingSetup", "GetAuthorizedKeyPath"} }
        \cup { [NoOperation EXCEPT !.name = "ResetBakingHLW", !.hlwm = 655360] }
        \cup { [name |-> "SetupBaking", chainId |-> c, hlwm |-> 655360, hex |-> <<>>] :
                   c \in {MainnetChainId, <<"1">>} }

AppIdle ==
    /\ pc = "off"
    /\ BipPath = <<>>
    /\ nonBlocking = TRUE
    /\ devResp = NoResponse
    /\ devPending = <<>>
    /\ devOut = <<>>
    /\ io = <<>>
    /\ readResult = <<>>
    /\ waited = 0
    /\ resp = Ok(<<>>)
    /\ toSign = <<>>
    /\ sret = NotReturned
    /\ calls = 0
    /\ operation = NoOperation
    /\ oret = OpNotReturned

\* after Get: the handle is non-blocking and no path is set
AppInit ==
    /\ pc = "idle"
    /\ BipPath = <<>>
    /\ nonBlocking = TRUE
    /\ devResp = NoResponse
    /\ devPending = <<>>
    /\ devOut = <<>>
    /\ io = <<>>
    /\ readResult = <<>>
    /\ waited = 0
    /\ resp = Ok(<<>>)
    /\ toSign = <<>>
    /\ sret = NotReturned
    /\ calls = 0
    /\ operation = NoOperation
    /\ oret = OpNotReturned

\* a Read has been called and the device is about to answer with a response
ReadInit ==
    /\ pc = "read"
    /\ BipPath = <<>>
    /\ nonBlocking = TRUE
    /\ devResp \in ReadResponses
    /\ devPending = DevicePackets(devResp)
    /\ devOut = <<>>
    /\ io = <<>>
    /\ readResult = <<>>
    /\ waited = 0
    /\ resp = Ok(<<>>)
    /\ toSign = <<>>
    /\ sret = NotReturned
    /\ calls = 0
    /\ operation = NoOperation
    /\ oret = OpNotReturned

\* the two callers that share one Ledger
Callers == {1, 2}

\* no caller shares the Ledger
SharedIdle ==
    /\ cpc = [c \in Callers |-> "off"]
    /\ cresult = [c \in Callers |-> <<>>]
    /\ cwaited = [c \in Callers |-> 0]
    /\ cret = [c \in Callers |-> Fail("<not returned>")]

otherVars == <<frameVars, b58Vars, pathVars, sharedVars>>

SetBipPath(bipPath) ==
    /\ pc = "idle"
    /\ LET encodedBP == encodeBipPath(bipPath)
       IN BipPath' = IF encodedBP.err # nil THEN BipPath ELSE encodedBP.out
    /\ UNCHANGED <<pc, nonBlocking, devResp, devPending, devOut, io, readResult,
                   waited, resp, toSign, sret, calls, operation, oret, otherVars>>

\* the device sends the next packet of its response
DeviceEmit ==
    /\ devPending # <<>>
    /\ devOut' = Append(devOut, Head(devPending))
    /\ devPending' = Tail(devPending)
    /\ UNCHANGED <<pc, BipPath, nonBlocking, devResp, io, readResult, waited, resp,
                   toSign, sret, calls, operation, oret, otherVars>>

\* where SignBytes is after the step at position at went well
SignBytesStep(at) ==
    CASE at = "write1" -> "read1"
      [] at = "read1" -> "block"
      [] at = "block" -> "write2"
      [] at = "write2" -> "read2"
      [] at = "read2" -> "unblock"
      [] OTHER -> "idle"

\* SignBytes that does not look at the error of its first Read
SignBytesNextUnchecked(at, err) ==
    IF err # nil /\ at # "read1" THEN "idle" ELSE SignBytesStep(at)

\* where SignBytes is after the step at position at returned err: every error
\* is returned at once
SignBytesNext(at, err) ==
    IF err # nil THEN "idle" ELSE SignBytesStep(at)

SignBytesMessage(at) ==
    CASE at = "write1" -> "Unable to sign bytes (1)"
      [] at = "read1" -> "Unable to read bytes signature (1)"
      [] at = "write2" -> "Unable to sign bytes (2)"
      [] at = "read2" -> "Unable to read bytes signature"
      [] OTHER -> "Could not set non-blocking"

\* the signature of 64 bytes the device of the model returns
DeviceSignature == Patterned(64)

DeviceSignatureText == B58cencode(DeviceSignature, edsigprefix)

EmptySignatureText == B58cencode(<<>>, edsigprefix)

\* ledger.B58cencode(sig, edsigprefix), line 496
SignatureText(sig) ==
    IF sig = DeviceSignature THEN DeviceSignatureText
    ELSE IF sig = <<>> THEN EmptySignatureText
    ELSE B58cencode(sig, edsigprefix)

\* where the caller of SignBytes goes on when SignBytes returns: signGeneric
\* goes on with the signature, any other caller has its result
SignBytesReturnsTo(next) ==
    IF next = "idle" /\ operation # NoOperation THEN "gdecode" ELSE next

\* the step of SignBytes at position pc returned err; out is what Read
\* returned when the step was a Read, sig the text SignBytes returns when the
\* step was its last
SignBytesAfter(err, out, sig) ==
    /\ pc' = SignBytesReturnsTo(SignBytesNext(pc, err))
    /\ resp' = IF pc \in {"read1", "read2"}
               THEN (IF err # nil THEN Fail(err) ELSE Ok(out)) ELSE resp
    /\ sret' = IF pc' \notin {"idle", "gdecode"} THEN sret
               ELSE IF err # nil
               THEN [sig |-> <<>>, err |-> errorsWrap(err, SignBytesMessage(pc)),
                     from |-> pc]
               ELSE [sig |-> sig, err |-> nil,
                     from |-> pc]

\* SignBytes is called: the check of BipPath
SignBytesBegin(bytesToSign) ==
    /\ pc = "idle"
    /\ calls < MaxCalls
    /\ calls' = calls + 1
    /\ toSign' = bytesToSign
    /\ io' = <<>>
    /\ IF Len(BipPath) = 0
       THEN /\ pc' = "idle"
            /\ sret' = [sig |-> <<>>, err |-> "No BIP Path is set; Use SetBipPath()",
                        from |-> "check"]
       ELSE /\ pc' = "write1"
            /\ sret' = NotReturned
    /\ operation' = NoOperation
    /\ oret' = OpNotReturned
    /\ UNCHANGED <<BipPath, nonBlocking, devResp, devPending, devOut, readResult,
                   waited, resp, otherVars>>

\* the command SignBytes writes at position at
SignBytesApdu(at) ==
    IF at = "write1" THEN TzApdu(SignBytes, 0, 0, BipPath)
    ELSE TzApdu(SignBytes, 129, 0, toSign)

\* l.Write of the path command or of the bytes to sign; a device that got the
\* command answers it or stays silent
SignBytesWrite ==
    /\ pc \in {"write1", "write2"}
    /\ LET apdu == SignBytesApdu(pc)
           buffer == WriteBuffer(apdu, TEZOS_CHANNEL)
       IN IF buffer.err # nil
          THEN /\ SignBytesAfter(buffer.err, <<>>, <<>>)
               /\ UNCHANGED <<io, devResp, devPending>>
          ELSE \E o \in DevWriteOutcomes(buffer.out) :
                  /\ io' = Append(io, WriteEvent(MarshalBinary(apdu), o.b, buffer.out))
                  /\ SignBytesAfter(WriteReturn(o.b, o.err).err, <<>>, <<>>)
                  /\ IF o.b > 0
                     THEN \E r \in SignResponses \cup {NoResponse} :
                             /\ devResp' = r
                             /\ devPending' = devPending \o
                                   (IF r = NoResponse THEN <<>> ELSE DevicePackets(r))
                     ELSE UNCHANGED <<devResp, devPending>>
    /\ readResult' = <<>>
    /\ waited' = 0
    /\ UNCHANGED <<BipPath, nonBlocking, devOut, toSign, calls, operation, oret,
                   otherVars>>

\* an operation that goes on without a stored path
BipPathMissingNever(name) == FALSE

\* the check of BipPath at the head of getKey, SetupBaking, AuthorizeBaking
BipPathMissing(name) == NeedsBipPath(name) /\ Len(BipPath) = 0

\* an operation is called: the check of BipPath, where there is one
OperationBegin(o) ==
    /\ pc = "idle"
    /\ calls < MaxCalls
    /\ calls' = calls + 1
    /\ operation' = o
    /\ io' = <<>>
    /\ IF BipPathMissing(o.name)
       THEN /\ pc' = "idle"
            /\ oret' = OpReturn(<<>>, <<>>, ErrNoBipPath)
       ELSE /\ pc' = "owrite"
            /\ oret' = OpNotReturned
    /\ resp' = Ok(<<>>)
    /\ toSign' = <<>>
    /\ sret' = NotReturned
    /\ UNCHANGED <<BipPath, nonBlocking, devResp, devPending, devOut, readResult,
                   waited, otherVars>>

\* the operation returns r
OperationReturns(r) ==
    /\ pc' = "idle"
    /\ oret' = r

\* l.Write of the command of the operation; a device that got the command
\* answers it or stays silent
OperationWriteOf(cmd, buffer) ==
    /\ pc = "owrite"
    /\ IF cmd.err # nil
       THEN /\ OperationReturns(OpFail(operation.name, cmd.err))
            /\ UNCHANGED <<io, devResp, devPending>>
       ELSE IF buffer.err # nil
       THEN /\ OperationReturns(
                    OpFail(operation.name,
                           OperationWriteError(operation.name, buffer.err)))
            /\ UNCHANGED <<io, devResp, devPending>>
       ELSE \E o \in DevWriteOutcomes(buffer.out) :
                  /\ io' = Append(io, WriteEvent(MarshalBinary(cmd.apdu), o.b,
                                                  buffer.out))
                  /\ IF WriteReturn(o.b, o.err).err = nil
                     THEN /\ pc' = "oread"
                          /\ oret' = oret
                          /\ \E r \in (IF o.b > 0 THEN OperationResponses(operation.name)
                                       ELSE {}) \cup {NoResponse} :
                                /\ devResp' = r
                                /\ devPending' = devPending \o
                                      (IF r = NoResponse THEN <<>> ELSE DevicePackets(r))
                     ELSE /\ OperationReturns(
                                OpFail(operation.name,
                                       OperationWriteError(
                                           operation.name, WriteReturn(o.b, o.err).err)))
                          /\ UNCHANGED <<devResp, devPending>>
    /\ readResult' = <<>>
    /\ waited' = 0
    /\ UNCHANGED <<BipPath, nonBlocking, devOut, resp, toSign, sret, calls, operation,
                   otherVars>>

\* the buffer the command of an operation is written from
OperationBuffer(cmd) ==
    IF cmd.err # nil THEN Fail(cmd.err) ELSE WriteBuffer(cmd.apdu, TEZOS_CHANNEL)

OperationWrite ==
    /\ pc = "owrite"
    /\ \E cmd \in {OperationApdu(operation)} :
          \E buffer \in {OperationBuffer(cmd)} : OperationWriteOf(cmd, buffer)

Reading == {"read", "read1", "read2", "oread"}

\* Read returns ret to its caller; raw are the bytes it read
ReadReturns(ret, sw, raw) ==
    /\ io' = Append(io, ReadEvent(ret.err, sw, raw))
    /\ IF pc = "read"
       THEN /\ pc' = "returned"
            /\ resp' = ret
            /\ UNCHANGED <<sret, oret>>
       ELSE IF pc = "oread"
       THEN /\ pc' = "oparse"
            /\ resp' = ret
            /\ UNCHANGED <<sret, oret>>
       ELSE /\ SignBytesAfter(ret.err, ret.out, <<>>)
            /\ UNCHANGED oret

\* the operation after its l.Read returned resp: the error of Read wrapped,
\* or the result made of the payload
OperationParse ==
    /\ pc = "oparse"
    /\ OperationReturns(
          IF resp.err # nil
          THEN OpFail(operation.name, OperationReadError(operation.name, resp.err))
          ELSE OperationResult(operation.name, resp.out,
                               SpareBytes(io[Len(io)].raw)))
    /\ UNCHANGED <<BipPath, nonBlocking, devOut, devResp, devPending, readResult,
                   waited, io, resp, toSign, sret, calls, operation, otherVars>>

\* Dev.Read returns a packet: it is appended to result, which is unwrapped
DevReadPacket ==
    /\ pc \in Reading
    /\ devOut # <<>>
    /\ devOut' = Tail(devOut)
    /\ readResult' = readResult \o Head(devOut).data
    /\ waited' = 0
    /\ LET u == ReadUnwrapped(TEZOS_CHANNEL, readResult')
       IN IF u.more THEN UNCHANGED <<pc, io, resp, sret, oret>>
          ELSE ReadReturns(u.ret, Head(devOut).sw, readResult')
    /\ UNCHANGED <<BipPath, nonBlocking, devResp, devPending, toSign, calls, operation,
                   otherVars>>

\* a readData that reads again after every empty read, deadline or not
DevReadNothingNoDeadline ==
    /\ pc \in Reading
    /\ devOut = <<>>
    /\ nonBlocking
    /\ waited' = (waited + 1) % DeadlinePolls
    /\ UNCHANGED <<pc, io, resp, sret, oret>>
    /\ UNCHANGED <<BipPath, nonBlocking, devResp, devPending, devOut, readResult,
                   toSign, calls, operation, otherVars>>

\* Dev.Read returns 0 bytes, which a non-blocking handle does when the device
\* has sent nothing: readData sleeps and reads again, until its deadline
DevReadNothing ==
    /\ pc \in Reading
    /\ devOut = <<>>
    /\ nonBlocking
    /\ IF waited + 1 >= DeadlinePolls
       THEN /\ waited' = 0
            /\ ReadReturns(Fail("Timeout Expired"), -1, readResult)
       ELSE /\ waited' = waited + 1
            /\ UNCHANGED <<pc, io, resp, sret, oret>>
    /\ UNCHANGED <<BipPath, nonBlocking, devResp, devPending, devOut, readResult,
                   toSign, calls, operation, otherVars>>

\* Dev.Read returns a negative count and an error
DevReadFails ==
    /\ pc \in Reading
    /\ waited' = 0
    /\ ReadReturns(Fail(errorsWrap("hid: read error", "Failed to read")), -1,
                   readResult)
    /\ UNCHANGED <<BipPath, nonBlocking, devResp, devPending, devOut, readResult,
                   toSign, calls, operation, otherVars>>

\* Dev.SetNonBlocking(false) before the second command
SignBytesSetBlocking ==
    /\ pc = "block"
    /\ \E r \in {0, -1} :
          /\ nonBlocking' = IF r = -1 THEN nonBlocking ELSE FALSE
          /\ io' = Append(io, ModeEvent(FALSE, r))
          /\ SignBytesAfter(IF r = -1 THEN "hid: error" ELSE nil, <<>>, <<>>)
    /\ UNCHANGED <<BipPath, devResp, devPending, devOut, readResult, waited, toSign,
                   calls, operation, oret, otherVars>>

\* Dev.SetNonBlocking(true) after the second response, and the return of the
\* signature
SignBytesRestore ==
    /\ pc = "unblock"
    /\ \E r \in {0, -1} :
          /\ nonBlocking' = IF r = -1 THEN nonBlocking ELSE TRUE
          /\ io' = Append(io, ModeEvent(TRUE, r))
          /\ SignBytesAfter(IF r = -1 THEN "hid: error" ELSE nil, <<>>,
                            SignatureText(resp.out))
    /\ UNCHANGED <<BipPath, devResp, devPending, devOut, readResult, waited, toSign,
                   calls, operation, oret, otherVars>>

(***************************************************************************)
(* Specifications.                                                         *)
(***************************************************************************)
(***************************************************************************)
(* Two callers of one Ledger.  Each makes one round trip, l.Write and then *)
(* l.Read, on the handle they share; Ledger holds no lock, so the calls of *)
(* Dev.Write and Dev.Read of the two interleave freely.                    *)
(***************************************************************************)
\* the command of a caller: the first asks for the version, the second sends
\* bytes to sign
CallerApdu(c) ==
    IF c = 1 THEN TzApdu(Version, 0, 0, <<>>)
    ELSE TzApdu(SignBytes, 129, 0, <<3, 1, 2>>)

\* what the device answers the command of a caller with: a version, and a
\* signature of 64 bytes that takes two packets
CallerResponse(c) ==
    IF c = 1 THEN [payload |-> <<1, 2, 2, 9>>, sw |-> 36864]
    ELSE [payload |-> Patterned(64), sw |-> 36864]

\* the callers get hold of the Ledger
SharedInit ==
    /\ cpc = [c \in Callers |-> "idle"]
    /\ cresult = [c \in Callers |-> <<>>]
    /\ cwaited = [c \in Callers |-> 0]
    /\ cret = [c \in Callers |-> Fail("<not returned>")]

\* what the steps of the callers leave alone
sharedOther ==
    <<pc, BipPath, nonBlocking, devResp, io, readResult, waited, resp, toSign,
      sret, calls, operation, oret, frameVars, b58Vars, pathVars>>

\* l.Read of caller c returns ret
SharedReturns(c, ret) ==
    /\ cpc' = [cpc EXCEPT ![c] = "returned"]
    /\ cret' = [cret EXCEPT ![c] = ret]

\* l.Write of caller c; the device answers the command it got
SharedWrite(c) ==
    /\ cpc[c] = "idle"
    /\ \E buffer \in {WriteBuffer(CallerApdu(c), TEZOS_CHANNEL)} :
          \E o \in DevWriteOutcomes(buffer.out) :
             IF WriteReturn(o.b, o.err).err = nil
             THEN /\ cpc' = [cpc EXCEPT ![c] = "read"]
                  /\ devPending' = devPending \o
                        (IF o.b > 0 THEN DevicePackets(CallerResponse(c)) ELSE <<>>)
                  /\ UNCHANGED cret
             ELSE /\ SharedReturns(c, Fail(WriteReturn(o.b, o.err).err))
                  /\ UNCHANGED devPending
    /\ UNCHANGED <<cresult, cwaited, devOut, sharedOther>>

\* Dev.Read in l.Read of caller c returns a packet
SharedReadPacket(c) ==
    /\ cpc[c] = "read"
    /\ devOut # <<>>
    /\ devOut' = Tail(devOut)
    /\ cresult' = [cresult EXCEPT ![c] = @ \o Head(devOut).data]
    /\ cwaited' = [cwaited EXCEPT ![c] = 0]
    /\ \E u \in {ReadUnwrapped(TEZOS_CHANNEL, cresult'[c])} :
          IF u.more THEN UNCHANGED <<cpc, cret>> ELSE SharedReturns(c, u.ret)
    /\ UNCHANGED <<devPending, sharedOther>>

\* Dev.Read in l.Read of caller c returns no bytes
SharedReadNothing(c) ==
    /\ cpc[c] = "read"
    /\ devOut = <<>>
    /\ IF cwaited[c] + 1 >= DeadlinePolls
       THEN /\ cwaited' = [cwaited EXCEPT ![c] = 0]
            /\ SharedReturns(c, Fail("Timeout Expired"))
       ELSE /\ cwaited' = [cwaited EXCEPT ![c] = @ + 1]
            /\ UNCHANGED <<cpc, cret>>
    /\ UNCHANGED <<cresult, devPending, devOut, sharedOther>>

\* Dev.Read in l.Read of caller c returns a negative count and an error
SharedReadFails(c) ==
    /\ cpc[c] = "read"
    /\ cwaited' = [cwaited EXCEPT ![c] = 0]
    /\ SharedReturns(c, Fail(errorsWrap("hid: read error", "Failed to read")))
    /\ UNCHANGED <<cresult, devPending, devOut, sharedOther>>

SharedNext ==
    \/ \E c \in Callers : SharedWrite(c)
    \/ \E c \in Callers : SharedReadPacket(c)
    \/ \E c \in Callers : SharedReadNothing(c)
    \/ \E c \in Callers : SharedReadFails(c)
    \/ DeviceEmit

InitShared == AppIdle /\ FrameIdle /\ B58Idle /\ PathIdle /\ SharedInit

\* two callers, one round trip each
SpecShared == InitShared /\ [][SharedNext]_vars

Init == AppInit /\ FrameIdle /\ B58Idle /\ PathIdle /\ SharedIdle

Next ==
    \/ \E bipPath \in AppPaths : SetBipPath(bipPath)
    \/ \E bytesToSign \in BytesToSign : SignBytesBegin(bytesToSign)
    \/ SignBytesWrite
    \/ SignBytesSetBlocking
    \/ SignBytesRestore
    \/ DevReadPacket
    \/ DevReadNothing
    \/ DevReadFails
    \/ DeviceEmit

\* the signing handshake
Spec == Init /\ [][Next]_vars

ReadNext == DevReadPacket \/ DevReadNothing \/ DevReadFails \/ DeviceEmit

\* one Read of one response
InitRead == ReadInit /\ FrameIdle /\ B58Idle /\ PathIdle /\ SharedIdle

SpecRead == InitRead /\ [][ReadNext]_vars

PollNext ==
    \/ \E bipPath \in AppPaths : SetBipPath(bipPath)
    \/ \E bytesToSign \in BytesToSign : SignBytesBegin(bytesToSign)
    \/ SignBytesWrite
    \/ SignBytesSetBlocking
    \/ SignBytesRestore
    \/ DevReadPacket
    \/ DevReadNothing
    \/ DeviceEmit

\* the signing handshake over a transport whose reads do not fail; readData
\* goes on polling: a read of a non-blocking handle returns at once, and the
\* pause after an empty read ends after 100 ms
SpecPoll == Init /\ [][PollNext]_vars /\ WF_vars(DevReadNothing)

OpsNext ==
    \/ \E bipPath \in AppPaths : SetBipPath(bipPath)
    \/ \E o \in Operations : OperationBegin(o)
    \/ OperationWrite
    \/ OperationParse
    \/ DevReadPacket
    \/ DevReadNothing
    \/ DevReadFails
    \/ DeviceEmit

\* the operations and SignBytes over a device that takes every command and
\* never answers: every Read ends at its deadline, so SignBytes never gets to
\* the steps behind its first Read
MuteNext ==
    \/ \E bipPath \in AppPaths : SetBipPath(bipPath)
    \/ \E o \in Operations : OperationBegin(o)
    \/ \E bytesToSign \in BytesToSign : SignBytesBegin(bytesToSign)
    \/ OperationWrite
    \/ OperationParse
    \/ SignBytesWrite
    \/ DevReadNothing

InitMute == AppInit /\ FrameIdle /\ B58Idle /\ PathIdle /\ SharedIdle

SpecMute == InitMute /\ [][MuteNext]_vars

\* the operations of one round trip
InitOps == AppInit /\ FrameIdle /\ B58Idle /\ PathIdle /\ SharedIdle

SpecOps == InitOps /\ [][OpsNext]_vars

FrameNext == FrameWrap \/ FrameMutate \/ FrameUnwrap

\* the framing codec
InitFrame == FrameStart /\ B58Idle /\ PathIdle /\ AppIdle /\ SharedIdle

SpecFrame == InitFrame /\ [][FrameNext]_vars

B58Next == B58Encode \/ B58Tamper \/ B58Decode

\* the base-58-check codec
InitB58 == B58Start /\ FrameIdle /\ PathIdle /\ AppIdle /\ SharedIdle

SpecB58 == InitB58 /\ [][B58Next]_vars

PathNext == PathEncode \/ PathDecode

\* the path codec
InitPath == PathStart /\ FrameIdle /\ B58Idle /\ AppIdle /\ SharedIdle

SpecPath == InitPath /\ [][PathNext]_vars

(***************************************************************************)
(* C1 - round trip of the framing                                          *)
(***************************************************************************)
FrameRoundTrip ==
    /\ fpc = "done"
    /\ fmut = NoMutation
    /\ IsSuccessWord(fin.sw)

\* C1 as stated: for every payload, every 2-byte channel and every packet size
\* >= 8, unwrapping the wrapped payload-plus-success-status-word gives back
\* exactly the payload and no error.
C1_RoundTripFromSize8 ==
    (FrameRoundTrip /\ fin.size >= 8) => funwrapped = Ok(fin.payload)

\* C1 amended: the round trip holds for packet size 8 and for every packet
\* size >= 12; unwrapResponseAPDU refuses fewer than 12 bytes of data, which is
\* all a short command fills with a packet size of 9, 10 or 11.
C1_RoundTripSize8Or12 ==
    (FrameRoundTrip /\ (fin.size = 8 \/ fin.size >= 12))
        => funwrapped = Ok(fin.payload)

\* C1 witness: a payload with zero bytes that needed more than one packet of
\* size 12 has been unwrapped to itself.
C1_Witness ==
    /\ FrameRoundTrip
    /\ fin.size = 12
    /\ Len(fdata) >= 3 * fin.size
    /\ fin.payload # <<>> /\ fin.payload[Len(fin.payload)] = 0
    /\ funwrapped = Ok(fin.payload)

(***************************************************************************)
(* C3 - only 0x9000 and 0x61xx are success                                 *)
(***************************************************************************)
\* C3 as stated: unwrapResponseAPDU reports success only when the status word
\* is 0x9000 or has high byte 0x61; for every other status word it returns an
\* error and no payload.
C3_OnlySuccessWordsSucceed ==
    (fpc = "done" /\ fmut = NoMutation /\ fin.sw # NoStatusWord
                  /\ ~IsSuccessWord(fin.sw))
        => (funwrapped.err # nil /\ funwrapped.out = <<>>)

(***************************************************************************)
(* C4 - a changed channel, tag or sequence field is rejected               *)
(***************************************************************************)
FramingError(field) ==
    CASE field = "channel" -> "Invalid channel"
      [] field = "tag" -> "Invalid tag"
      [] field = "sequence" -> "Invalid sequence"
      [] OTHER -> nil

\* C4: when the channel, tag or sequence field of one packet (first or
\* continuation) of a frame that unwraps successfully is changed,
\* unwrapResponseAPDU returns the matching Invalid channel / Invalid tag /
\* Invalid sequence error and no payload.
C4_MutatedHeaderRejected ==
    (fpc = "done" /\ fmut # NoMutation)
        => funwrapped = Fail(FramingError(fmut.field))

\* C4 witness: the sequence field of a continuation packet was changed and the
\* frame was rejected.
C4_Witness ==
    /\ fpc = "done"
    /\ fmut.field = "sequence"
    /\ fmut.packet >= 2
    /\ funwrapped.err = "Invalid sequence"

(***************************************************************************)
(* C2 - Read reads on until the frame is complete                          *)
(***************************************************************************)
ReadTransportErrors == {"Timeout Expired", "Failed to read: hid: read error"}

\* C2 as stated: for a correctly framed response with a success status word,
\* delivered one packet per read, a Read that the transport did not fail and
\* that did not time out returns the payload of the response; it does not end
\* with a decode error and it does not return ErrMoreData.
C2_ReadReturnsPayload ==
    (pc = "returned" /\ IsSuccessWord(devResp.sw)
                     /\ resp.err \notin ReadTransportErrors)
        => resp = Ok(devResp.payload)

(***************************************************************************)
(* C5 - SignBytes: two round trips, in order                               *)
(***************************************************************************)
IsPathWrite(e) ==
    /\ e.ev = "write"
    /\ e.apdu = <<128, 4, 0, 0, Len(BipPath)>> \o BipPath

IsBytesWrite(e) ==
    /\ e.ev = "write"
    /\ e.apdu = <<128, 4, 129, 0, Len(toSign) % 256>> \o toSign

IsReadOk(e) == e.ev = "read" /\ e.err = nil

SignBytesSucceeded == pc = "idle" /\ sret.err = nil

\* C5: a SignBytes that returned a signature wrote the path command (P1 =
\* 0x00), read its response, wrote the bytes to sign (P1 = 0x81) and read its
\* response, in this order and with no other write or read; and in every
\* state a command with P1 = 0x81 was written only after the path command was
\* written and its response read without error.
C5_TwoOrderedRoundTrips ==
    /\ SignBytesSucceeded =>
          /\ Len(io) = 6
          /\ IsPathWrite(io[1]) /\ IsReadOk(io[2]) /\ io[3].ev = "mode"
          /\ IsBytesWrite(io[4]) /\ IsReadOk(io[5]) /\ io[6].ev = "mode"
    /\ \A i \in 1..Len(io) :
          (io[i].ev = "write" /\ io[i].apdu[3] = 129)
              => (i = 4 /\ IsPathWrite(io[1]) /\ IsReadOk(io[2]))

\* C5 witness: a second call of SignBytes returned the signature of a message
\* of 70 bytes, whose response took two packets.
C5_Witness ==
    /\ SignBytesSucceeded
    /\ calls = 2
    /\ Len(toSign) = 70
    /\ devResp.payload = Patterned(64)
    /\ sret.sig = B58cencode(Patterned(64), edsigprefix)
    /\ IsBytesWrite(io[4])

(***************************************************************************)
(* C6 - a failed step ends SignBytes                                       *)
(***************************************************************************)
\* the step recorded as e failed: a write the transport refused, or a read
\* that returned an error or met a response without a success status word
StepFailed(e) ==
    \/ e.ev = "write" /\ e.n <= 0
    \/ e.ev = "read" /\ (e.err # nil \/ ~IsSuccessWord(e.sw))

\* C6 as stated: when the write or the read of a round trip failed, SignBytes
\* has returned an error and an empty signature and wrote nothing after the
\* failed step; and every call starts with the path command.
C6_FailureAborts ==
    /\ \A i \in 1..Len(io) :
          StepFailed(io[i]) =>
              /\ pc = "idle" /\ sret.err # nil /\ sret.sig = <<>>
              /\ \A j \in (i + 1)..Len(io) : io[j].ev # "write"
    /\ Len(io) > 0 => IsPathWrite(io[1])

(***************************************************************************)
(* C7 - blocking mode during the second round trip only                    *)
(***************************************************************************)
\* C7 as stated: the handle is switched to blocking only after the response of
\* the first round trip was read without error and before the second command
\* is written; and when SignBytes has returned a signature, or an error of its
\* second write or second read, the handle is non-blocking.
C7_ModeRestored ==
    /\ \A i \in 1..Len(io) :
          (io[i].ev = "mode" /\ ~io[i].on)
              => (i = 3 /\ IsPathWrite(io[1]) /\ IsReadOk(io[2]))
    /\ (pc = "idle" /\ (sret.err = nil \/ sret.from \in {"write2", "read2"}))
          => nonBlocking

(***************************************************************************)
(* C8 - round trip of the base-58-check codec                              *)
(***************************************************************************)
\* C8: for every payload and every prefix of tezos-crypto.go, B58cdecode of
\* the text B58cencode made returns the payload (and decode returns the prefix
\* followed by the payload, without error).
C8_B58RoundTrip ==
    (bpc = "decoded" /\ btamper = 0)
        => (bcdec = Ok(bin.payload) /\ bdec = Ok(bin.prefix \o bin.payload))

\* C8 witness: a payload that starts with a zero byte came back under the
\* edsig prefix.
C8_Witness ==
    /\ bpc = "decoded"
    /\ btamper = 0
    /\ bin.prefix = edsigprefix
    /\ Len(bin.payload) = MaxB58PayloadLen
    /\ bin.payload[1] = 0 /\ bin.payload[Len(bin.payload)] = 255
    /\ bcdec = Ok(bin.payload)

(***************************************************************************)
(* C9 - a changed checksum byte                                            *)
(***************************************************************************)
ChecksumMismatch == "data and checksum don't match"

\* C9 as stated: when one of the four checksum bytes carried by a text of
\* B58cencode is changed, decode and B58cdecode fail with the checksum error
\* and return no data.
C9_TamperedChecksumRejected ==
    (bpc = "decoded" /\ btamper # 0)
        => (bdec = Fail(ChecksumMismatch) /\ bcdec = Fail(ChecksumMismatch))

(***************************************************************************)
(* C10 - round trip of the path codec                                      *)
(***************************************************************************)
IndexInRange(segment) == segment.digits \in IndicesBelowHardened

\* the path with every hardened marker written '
NormalisedPath(segments) ==
    PathText([i \in 1..Len(segments) |->
                 [digits |-> segments[i].digits,
                  modifier |-> IF segments[i].modifier = "" THEN "" ELSE "'"]])

\* C10 as stated: a path of four segments with every index below 0x80000000
\* decodes, after encoding, to itself with the markers normalised; a path with
\* an index of 0x80000000 or more is rejected with Invalid child index.
C10_PathRoundTrip ==
    /\ (ppc = "decoded" /\ \A i \in 1..4 : IndexInRange(pin[i]))
          => pdec = Ok(NormalisedPath(pin))
    /\ (ppc = "encoded" /\ \E i \in 1..4 : ~IndexInRange(pin[i]))
          => penc = Fail("Invalid child index")

(***************************************************************************)
(* C11 - status word 0x6985 is reported as a refusal by the user           *)
(***************************************************************************)
DeniedByUser == "Operation denied by the user"

\* C11 as stated: when a correctly framed response ends with status word
\* 0x6985, a Read that the transport did not fail and that did not time out
\* fails with "Operation denied by the user" (wrapped by Read) and returns no
\* payload.
C11_DeniedReported ==
    (pc = "returned" /\ devResp.sw = 27013
                     /\ resp.err \notin ReadTransportErrors)
        => resp = Fail(errorsWrap(DeniedByUser, "Failed to decode response"))

(***************************************************************************)
(* C12 - the version string                                                *)
(***************************************************************************)
RECURSIVE Decimal(_)
\* the decimal digits of a natural number
Decimal(n) ==
    IF n < 10 THEN <<DigitChars[n + 1]>>
    ELSE Decimal(n \div 10) \o <<DigitChars[(n % 10) + 1]>>

\* the operation called last returned after a write and a read, and the read
\* returned a payload of n bytes under a success status word
AnsweredWith(n) ==
    /\ pc = "idle"
    /\ Len(io) = 2
    /\ io[2].ev = "read" /\ io[2].err = nil /\ IsSuccessWord(io[2].sw)
    /\ Len(resp.out) = n

\* C12: when the device answers the version command with the correctly framed
\* payload [c, x, y, z] and a success status word, GetVersion returns
\* "Baking x.y.z" if c = 1 and "Wallet x.y.z" otherwise, and no error; for the
\* payload [1, 2, 2, 9] it returns "Baking 2.2.9".
C12_VersionString ==
    (operation.name = "GetVersion" /\ AnsweredWith(4)) =>
        /\ oret.err = nil
        /\ oret.s1 = (IF resp.out[1] = 1 THEN <<"B", "a", "k", "i", "n", "g">>
                      ELSE <<"W", "a", "l", "l", "e", "t">>)
                     \o <<" ">> \o Decimal(resp.out[2])
                     \o <<".">> \o Decimal(resp.out[3])
                     \o <<".">> \o Decimal(resp.out[4])
        /\ resp.out = <<1, 2, 2, 9>> =>
              oret.s1 = <<"B", "a", "k", "i", "n", "g", " ", "2", ".", "2", ".", "9">>

\* C12 witness: GetVersion returned "Baking 2.2.9" for the payload [1, 2, 2, 9].
C12_Witness ==
    /\ operation.name = "GetVersion"
    /\ AnsweredWith(4)
    /\ resp.out = <<1, 2, 2, 9>>
    /\ oret = OpReturn(<<"B", "a", "k", "i", "n", "g", " ", "2", ".", "2", ".", "9">>,
                       <<>>, nil)

(***************************************************************************)
(* C13 - a payload of 130 bytes in packets of 64 bytes                     *)
(***************************************************************************)
\* a payload of 130 bytes and its status word have been wrapped into packets
\* of 64 bytes
LongFrameWrapped ==
    /\ fpc \in {"wrapped", "done"}
    /\ fmut = NoMutation
    /\ Len(fin.payload) = 130
    /\ fin.size = 64

\* the last n bytes of packet k (counted from 1) of the wrapped frame
PacketTail(k, n) == SubSeq(fwrapped.out, k * fin.size - n + 1, k * fin.size)

LongFrameUnwrapped ==
    (fpc = "done" /\ IsSuccessWord(fin.sw)) => funwrapped = Ok(fin.payload)

\* C13 as stated: wrapping a 130-byte payload with packet size 64 yields
\* exactly 3 packets that carry 59 payload bytes in the first packet, 61 in
\* the second and the remainder plus zero padding in the third, and unwrapping
\* these packets gives back the 130 bytes.
C13_Carries59And61 ==
    LongFrameWrapped =>
        /\ fwrapped.err = nil
        /\ Len(fwrapped.out) = 3 * 64
        /\ PacketTail(1, 59) = SubSeq(fin.payload, 1, 59)
        /\ PacketTail(2, 61) = SubSeq(fin.payload, 60, 120)
        /\ PacketTail(3, 59) = SubSeq(FrameCommand, 121, 132) \o Zeros(47)
        /\ LongFrameUnwrapped

\* C13 amended: the three packets carry 57 bytes of the payload in the first
\* packet (after a header of 7 bytes), 59 in the second (after a header of 5
\* bytes) and, in the third, the remaining 14 bytes of the payload, the status
\* word and 43 zero bytes; unwrapping gives back the 130 bytes.
C13_Carries57And59 ==
    LongFrameWrapped =>
        /\ fwrapped.err = nil
        /\ Len(fwrapped.out) = 3 * 64
        /\ PacketTail(1, 57) = SubSeq(fin.payload, 1, 57)
        /\ PacketTail(2, 59) = SubSeq(fin.payload, 58, 116)
        /\ PacketTail(3, 59) = SubSeq(FrameCommand, 117, 132) \o Zeros(43)
        /\ SubSeq(fwrapped.out, 1, 7) = fin.channel \o <<5, 0, 0, 0, 132>>
        /\ SubSeq(fwrapped.out, 65, 69) = fin.channel \o <<5, 0, 1>>
        /\ SubSeq(fwrapped.out, 129, 133) = fin.channel \o <<5, 0, 2>>
        /\ LongFrameUnwrapped

\* C13 witness: a payload of 130 distinct-neighbour bytes was wrapped into 192
\* bytes and unwrapped to itself.
C13_Witness ==
    /\ LongFrameWrapped
    /\ fpc = "done"
    /\ fin.payload[1] # fin.payload[2]
    /\ Len(fwrapped.out) = 192
    /\ funwrapped = Ok(fin.payload)

(***************************************************************************)
(* C20 - wrapCommandAPDU is total from packet size 3 on                    *)
(***************************************************************************)
FrameWrapReturned == fpc \in {"wrapped", "mutated", "done"}

\* C20 as stated: wrapCommandAPDU fails with the configuration error exactly
\* when packet_size < 3; for every packet_size >= 3 and every command
\* (including the empty one) it returns a packet list and does not crash on
\* an out-of-range slice.
C20_WrapTotalFromSize3 ==
    FrameWrapReturned =>
        /\ fin.size < 3 => fwrapped = Fail("Can't handle less than 3 bytes")
        /\ fin.size >= 3 =>
              /\ fwrapped.err = nil
              /\ Len(fwrapped.out) > 0
              /\ Len(fwrapped.out) % fin.size = 0

(***************************************************************************)
(* C14 - no packet without command bytes, and zero padding only            *)
(***************************************************************************)
\* the packets of the wrapped frame
FramePackets == Len(fwrapped.out) \div fin.size

\* the length of the header of packet k (counted from 1)
HeaderLen(k) == IF k = 1 THEN 7 ELSE 5

\* the command bytes left for packet k and the packets after it, when every
\* packet before it is full
LeftFor(k) ==
    IF k = 1 THEN Len(FrameCommand)
    ELSE Len(FrameCommand) - (fin.size - 7) - (k - 2) * (fin.size - 5)

\* the command bytes packet k carries
Carried(k) == Min(LeftFor(k), fin.size - HeaderLen(k))

\* the bytes of packet k after its header and its command bytes
PacketRest(k) ==
    SubSeq(fwrapped.out, (k - 1) * fin.size + HeaderLen(k) + Carried(k) + 1,
           k * fin.size)

\* C14 as stated: for every packet size from 3 on, the output of
\* wrapCommandAPDU is a positive number of whole packets; a zero-length
\* command gives exactly one packet, a header followed by zero bytes; every
\* packet of any other command carries at least one command byte, so a command
\* that exactly fills its last packet gives no extra packet; and only zero
\* bytes follow the last command byte.
C14_NoEmptyPacket ==
    (FrameWrapReturned /\ fin.size >= 3) =>
        /\ fwrapped.err = nil
        /\ Len(fwrapped.out) > 0
        /\ Len(fwrapped.out) % fin.size = 0
        /\ Len(FrameCommand) = 0 =>
              fwrapped.out = fin.channel \o <<5, 0, 0, 0, 0>> \o Zeros(fin.size - 7)
        /\ Len(FrameCommand) > 0 =>
              \A k \in 1..FramePackets :
                  /\ Carried(k) >= 1
                  /\ k < FramePackets => PacketRest(k) = <<>>
                  /\ k = FramePackets =>
                        /\ LeftFor(k) = Carried(k)
                        /\ PacketRest(k) = Zeros(Len(PacketRest(k)))

(***************************************************************************)
(* C18 - the layout of the packets                                         *)
(***************************************************************************)
\* the header of packet k (counted from 1): channel, tag 5, the sequence
\* number k - 1 and, in the first packet, the length of the command, both
\* with the high byte first
ExpectedHeader(k) ==
    fin.channel \o <<5, ((k - 1) \div 256) % 256, (k - 1) % 256>>
        \o (IF k = 1
            THEN <<(Len(FrameCommand) \div 256) % 256, Len(FrameCommand) % 256>>
            ELSE <<>>)

\* the command bytes found in packet k after its header
PacketChunk(k) ==
    SubSeq(fwrapped.out, (k - 1) * fin.size + HeaderLen(k) + 1,
           (k - 1) * fin.size + HeaderLen(k) + Carried(k))

\* C18: in the output of wrapCommandAPDU the first packet carries
\* min(len(command), packet_size - 7) command bytes after its 7-byte header
\* (channel, tag 0x05, sequence, big-endian total length) and every
\* continuation packet carries up to packet_size - 5 command bytes after its
\* 5-byte header (channel, tag 0x05, sequence); all packets are full except
\* possibly the last, and the chunks in packet order are the command.
C18_PacketLayout ==
    (FrameWrapReturned /\ fwrapped.err = nil) =>
        /\ FramePackets >= 1
        /\ Len(fwrapped.out) = FramePackets * fin.size
        /\ \A k \in 1..FramePackets :
              /\ SubSeq(fwrapped.out, (k - 1) * fin.size + 1,
                        (k - 1) * fin.size + HeaderLen(k)) = ExpectedHeader(k)
              /\ Carried(k) >= 0
              /\ PacketChunk(k) =
                    SubSeq(FrameCommand, Len(FrameCommand) - LeftFor(k) + 1,
                           Len(FrameCommand) - LeftFor(k) + Carried(k))
              /\ k < FramePackets => Carried(k) = fin.size - HeaderLen(k)
              /\ k = FramePackets => Carried(k) = LeftFor(k)

\* C18 witness: a command of 132 bytes went into two full packets of 64 bytes
\* and a third that is not full.
C18_Witness ==
    /\ FrameWrapReturned
    /\ fwrapped.err = nil
    /\ fin.size = 64
    /\ FramePackets = 3
    /\ Carried(1) = 57 /\ Carried(2) = 59 /\ Carried(3) = 16
    /\ PacketChunk(3) = SubSeq(FrameCommand, 117, 132)
    /\ FrameCommand[117] # FrameCommand[118]

(***************************************************************************)
(* C19 - sequence numbers restart at 0 with every frame                    *)
(***************************************************************************)
\* the sequence field of packet k (counted from 1) of a run of packets of
\* PacketSize bytes
SequenceOf(bytes, k) ==
    bytes[(k - 1) * PacketSize + 4] * 256 + bytes[(k - 1) * PacketSize + 5]

\* the packets are numbered 0, 1, 2, ... in order
NumberedFromZero(bytes) ==
    \A k \in 1..(Len(bytes) \div PacketSize) : SequenceOf(bytes, k) = k - 1

\* C19: whatever Write and Read calls were made before, the packets of every
\* frame handed to the device carry the sequence numbers 0, 1, 2, ... in
\* order, and Read accepts a response whose packets are numbered 0, 1, 2, ...:
\* it never rejects such a response with "Invalid sequence".
C19_SequenceRestarts ==
    \A i \in 1..Len(io) :
        /\ io[i].ev = "write" =>
              /\ Len(io[i].raw) > PacketSize
              /\ NumberedFromZero(Tail(io[i].raw))
        /\ io[i].ev = "read" =>
              /\ NumberedFromZero(io[i].raw) =>
                    io[i].err # errorsWrap("Invalid sequence",
                                           "Failed to decode response")
              /\ io[i].err = nil => NumberedFromZero(io[i].raw)

\* C19 witness: in a second call of SignBytes, after the round trips of the
\* first call and its own first round trip, a command of two packets was
\* written and a response of two packets was read.
C19_Witness ==
    /\ calls = 2
    /\ pc = "idle"
    /\ sret.err = nil
    /\ Len(io) = 6
    /\ io[4].ev = "write" /\ Len(io[4].raw) = 1 + 2 * PacketSize
    /\ SequenceOf(Tail(io[4].raw), 1) = 0 /\ SequenceOf(Tail(io[4].raw), 2) = 1
    /\ io[5].ev = "read" /\ Len(io[5].raw) = 2 * PacketSize
    /\ SequenceOf(io[5].raw, 1) = 0 /\ SequenceOf(io[5].raw, 2) = 1

(***************************************************************************)
(* C16 - a silent device ends Read with a timeout                          *)
(***************************************************************************)
\* a Read is waiting, the handle is non-blocking and the device has nothing
\* to send and nothing on its way: every transport read returns zero bytes
Silent ==
    /\ pc \in Reading
    /\ nonBlocking
    /\ devOut = <<>>
    /\ devPending = <<>>

\* the last Read returned "Timeout Expired" and no payload
TimedOut ==
    /\ pc \notin Reading
    /\ resp = Fail("Timeout Expired")

\* C16: if every transport read returns zero bytes, Read goes on polling
\* and, once its deadline has passed, returns the error "Timeout Expired" with
\* no payload; it does not wait forever, and as long as the reads return zero
\* bytes it returns nothing else.
C16_SilenceEndsInTimeout ==
    /\ Silent ~> TimedOut
    /\ [][(Silent /\ pc' # pc) => (resp' = Fail("Timeout Expired")
                                   /\ waited + 1 >= DeadlinePolls)]_vars
    /\ [][(Silent /\ pc' = pc) => (waited' = waited + 1 /\ resp' = resp)]_vars

\* C16 witness: the first Read of SignBytes met a device that never answered
\* and SignBytes returned the timeout.
C16_Witness ==
    /\ pc = "idle"
    /\ devResp = NoResponse
    /\ Len(io) = 2
    /\ io[2].ev = "read" /\ io[2].err = "Timeout Expired" /\ io[2].raw = <<>>
    /\ resp = Fail("Timeout Expired")
    /\ sret.err = "Unable to read bytes signature (1): Timeout Expired"


(***************************************************************************)
(* C17 - no path, no device traffic                                        *)
(***************************************************************************)
\* the call made last is one of the five that need the derivation path
PathCallMadeLast ==
    \/ NeedsBipPath(operation.name)
    \/ operation = NoOperation /\ calls > 0

\* the error the call made last returned; "<not returned>" while it runs
PathCallError == IF operation = NoOperation THEN sret.err ELSE oret.err

\* C17: GetPublicKey, GetPublicKeyWithPrompt, SetupBaking, AuthorizeBaking and
\* SignBytes, called while no derivation path is stored, return an error
\* without writing to or reading from the device: the call has returned, its
\* error is the one about the missing path, and it made no write and no read.
C17_NoPathNoTraffic ==
    (Len(BipPath) = 0 /\ PathCallMadeLast) =>
        /\ pc = "idle"
        /\ PathCallError = ErrNoBipPath
        /\ io = <<>>
        /\ readResult = <<>>

\* C17 witness: SetupBaking was called after SignBytes, both without a stored
\* path, and returned the error about the path.
C17_Witness ==
    /\ Len(BipPath) = 0
    /\ calls = 2
    /\ operation.name = "SetupBaking"
    /\ pc = "idle"
    /\ oret.err = ErrNoBipPath
    /\ io = <<>>


(***************************************************************************)
(* C15 - two callers of one Ledger                                         *)
(***************************************************************************)
\* caller c wrote its command and its Read has not returned
AwaitsResponse(c) == cpc[c] = "read"

\* the Read of caller c returned a response without error
GotResponse(c) == cpc[c] = "returned" /\ cret[c].err = nil

\* every Read that returned a response returned the one to the command of
\* its own caller
ReadsOwnResponse ==
    \A c \in Callers : GotResponse(c) => cret[c].out = CallerResponse(c).payload

\* C15: when two callers share one Ledger, the round trips are serialized: no
\* command is written while the command of the other caller still waits for
\* its response, and every Read that returns a response returns the response
\* to the command of its own caller.
C15_RoundTripsSerialized ==
    /\ ~(AwaitsResponse(1) /\ AwaitsResponse(2))
    /\ ReadsOwnResponse


(***************************************************************************)
(* C21 - Read reads on only after ErrMoreData                              *)
(***************************************************************************)
\* the header fields unwrapResponseAPDU checks in every packet, and the
\* offset of a byte of each
GarbleFields == {"channel", "tag", "sequence"}

GarbleAt(field) ==
    CASE field = "channel" -> 1
      [] field = "tag" -> 3
      [] field = "sequence" -> 5

\* the packets with one header byte of packet k changed
Garbled(packets, k, field) ==
    [packets EXCEPT ![k].data[GarbleAt(field)] = (@ + 1) % 256]

\* what the device may send for a response: its packets, or the packets with
\* one header field of one packet wrong
GarbledPackets(packets) ==
    {packets} \cup {Garbled(packets, k, f) : k \in 1..Len(packets), f \in GarbleFields}

\* the responses of ReadResponses, and the same payloads under the status
\* word 0x6a84, which is no success word
GarbledResponses ==
    ReadResponses \cup [payload : {Patterned(n) : n \in ReadPayloadLens}, sw : {27268}]

\* a Read has been called and the device is about to send packets, well
\* formed or not
ReadGarbledInit ==
    /\ pc = "read"
    /\ BipPath = <<>>
    /\ nonBlocking = TRUE
    /\ devResp \in GarbledResponses
    /\ devPending \in GarbledPackets(DevicePackets(devResp))
    /\ devOut = <<>>
    /\ io = <<>>
    /\ readResult = <<>>
    /\ waited = 0
    /\ resp = Ok(<<>>)
    /\ toSign = <<>>
    /\ sret = NotReturned
    /\ calls = 0
    /\ operation = NoOperation
    /\ oret = OpNotReturned

InitGarbled == ReadGarbledInit /\ FrameIdle /\ B58Idle /\ PathIdle /\ SharedIdle

SpecGarbled == InitGarbled /\ [][ReadNext]_vars

\* what unwrapResponseAPDU says about the bytes Read has collected
UnwrapOfResult == unwrapResponseAPDU(TEZOS_CHANNEL, readResult, PacketSize)

HeaderErrors == {"Invalid channel", "Invalid tag", "Invalid sequence"}

\* unwrapResponseAPDU got as far as the status word of the bytes Read has
\* collected (lines 316-318): it met no header error, did not ask for more
\* data, did not run out of data and did not panic
ReachedStatusWord ==
    /\ readResult # <<>>
    /\ UnwrapOfResult.err \notin
          HeaderErrors \cup {ErrMoreData, "No data", PanicSlice, PanicIndex}

\* the status word that ends the response reassembled from those bytes
StatusWordOfResult ==
    readResult[ResponseByteOffset(Uint16(readResult, 5) - 2) + 1] * 256
        + readResult[ResponseByteOffset(Uint16(readResult, 5) - 1) + 1]

\* Read has returned err, wrapped, and no payload, and is no longer reading
ReadReturnedError(err) ==
    /\ pc \notin Reading
    /\ err # nil
    /\ resp = Fail(errorsWrap(err, "Failed to decode response"))

\* C21 as stated: Read takes another packet from the transport only when
\* unwrapResponseAPDU answered ErrMoreData for the bytes read so far; once
\* unwrapResponseAPDU met an invalid channel, tag or sequence, Read has
\* returned that error and is no longer reading; and once the response
\* collected ends with a status word that is no success word, Read has
\* returned the error of that status word and is no longer reading.
C21_ReadsOnOnlyForMoreData ==
    /\ [][(readResult # <<>> /\ readResult' # readResult)
             => UnwrapOfResult.err = ErrMoreData]_vars
    /\ []((readResult # <<>> /\ UnwrapOfResult.err \in HeaderErrors)
             => ReadReturnedError(UnwrapOfResult.err))
    /\ []((ReachedStatusWord /\ ~IsSuccessWord(StatusWordOfResult))
             => ReadReturnedError(UnwrapOfResult.err))


(***************************************************************************)
(* C22 - one deadline for the whole Read                                   *)
(***************************************************************************)
\* C22 as stated: the waiting of a Read is counted over the whole call; when
\* a packet arrives and Read reads on, the time already spent waiting stays
\* counted (the budget is not renewed), so the waiting summed over all packets
\* of one response never exceeds the deadline.
C22_BudgetNotRenewed ==
    [][(pc \in Reading /\ pc' \in Reading /\ readResult' # readResult)
          => waited' = waited]_vars


(***************************************************************************)
(* Paths as text: any number of segments, with digits or not, with a       *)
(* marker encodeBipPath knows or another character.                        *)
(***************************************************************************)
MaxSegments == 5

TextSegments ==
    { [digits |-> <<"0">>, modifier |-> ""],
      [digits |-> <<"4", "4">>, modifier |-> "'"],
      [digits |-> <<"1", "7", "2", "9">>, modifier |-> "h"],
      [digits |-> <<"0">>, modifier |-> "x"],
      [digits |-> <<>>, modifier |-> "'"] }

RECURSIVE SegmentLists(_)
\* the lists of at most n segments
SegmentLists(n) ==
    IF n = 0 THEN {<<>>}
    ELSE LET shorter == SegmentLists(n - 1)
         IN shorter \cup {Append(l, s) : l \in {x \in shorter : Len(x) = n - 1},
                                          s \in TextSegments}

PathTextStart ==
    /\ ppc = "start"
    /\ pin \in SegmentLists(MaxSegments)
    /\ penc = Ok(<<>>)
    /\ pdec = Ok(<<>>)

InitPathText == PathTextStart /\ FrameIdle /\ B58Idle /\ AppIdle /\ SharedIdle

SpecPathText == InitPathText /\ [][PathNext]_vars

\* a segment of the form "/" digits modifier?
WellFormedSegment(seg) == Len(seg.digits) > 0 /\ seg.modifier \in Markers

\* a path of the form ("/" digits modifier?)+
WellFormedPath(segments) ==
    Len(segments) >= 1 /\ \A i \in 1..Len(segments) : WellFormedSegment(segments[i])

\* the four bytes of a segment: its index, big-endian, with 0x80000000 added
\* when the segment is hardened
SegmentWord(seg) ==
    IF seg.modifier = "" THEN FourBytes(Atoi(seg.digits).out)
    ELSE AddHardened(Atoi(seg.digits).out)

RECURSIVE SegmentWords(_)
SegmentWords(segments) ==
    IF segments = <<>> THEN <<>>
    ELSE SegmentWords(SubSeq(segments, 1, Len(segments) - 1))
            \o SegmentWord(segments[Len(segments)])

(***************************************************************************)
(* C23 - the count byte of an encoded path                                 *)
(***************************************************************************)
\* C23 as stated: for a path of one or more well-formed segments the output
\* of encodeBipPath, when it returns one, is one byte holding the number of
\* segments followed by four bytes per segment, whatever the number of
\* segments.
C23_CountByteThenWords ==
    (ppc # "start" /\ WellFormedPath(pin) /\ penc.err = nil)
        => penc.out = <<Len(pin)>> \o SegmentWords(pin)

(***************************************************************************)
(* C24 - text that is not a path is rejected                               *)
(***************************************************************************)
\* the first segment that is not well formed has digits and a character
\* other than h, H and ' behind them
BadMarkerFirst(segments) ==
    \E i \in 1..Len(segments) :
        /\ \A j \in 1..(i - 1) : WellFormedSegment(segments[j])
        /\ Len(segments[i].digits) > 0
        /\ segments[i].modifier \notin Markers

\* C24 as stated: encodeBipPath returns an error for every text that is not
\* of the form ("/" digits modifier?)+; when the digits of a segment are
\* followed by another marker character the error is Invalid modifier.
C24_MalformedRejected ==
    /\ (ppc # "start" /\ ~WellFormedPath(pin)) => penc.err # nil
    /\ (ppc # "start" /\ BadMarkerFirst(pin)) => penc = Fail("Invalid modifier")


(***************************************************************************)
(* C25 - the length byte of a key response                                 *)
(***************************************************************************)
KeyOperations ==
    {"GetPublicKey", "GetPublicKeyWithPrompt", "SetupBaking", "AuthorizeBaking"}

\* a key operation returned after its Read returned a payload whose first
\* byte is not the number of bytes behind it
LengthByteWrong ==
    /\ operation.name \in KeyOperations
    /\ pc = "idle"
    /\ Len(io) = 2
    /\ io[2].ev = "read" /\ io[2].err = nil
    /\ Len(resp.out) >= 1
    /\ resp.out[1] # Len(resp.out) - 1

\* C25: when the first byte of the response to GetPublicKey,
\* GetPublicKeyWithPrompt, SetupBaking or AuthorizeBaking differs from the
\* number of bytes that follow it, the operation returns ErrLengthMismatch,
\* or ErrDecodeLength when the byte is no one-byte length (0x80 and above),
\* and returns neither a public key nor an address.
C25_LengthByteChecked ==
    LengthByteWrong =>
        oret = OpReturn(<<>>, <<>>, IF resp.out[1] >= 128 THEN ErrDecodeLength
                                    ELSE ErrLengthMismatch)

\* C25 witness: SetupBaking got the payload [5, 2, 1] and returned
\* ErrLengthMismatch.
C25_Witness ==
    /\ LengthByteWrong
    /\ operation.name = "SetupBaking"
    /\ resp.out = <<5, 2, 1>>
    /\ oret = OpReturn(<<>>, <<>>, ErrLengthMismatch)


(***************************************************************************)
(* C26 - short payloads under a success status word                        *)
(***************************************************************************)
\* the operations that interpret the payload of the response
InterpretingOperations ==
    KeyOperations \cup {"GetVersion", "GetAuthorizedKeyPath"}

\* one of them returned after its Read returned, without error, no payload
\* or the single byte 0
ShortPayloadAnswered ==
    /\ operation.name \in InterpretingOperations
    /\ pc = "idle"
    /\ Len(io) = 2
    /\ io[2].ev = "read" /\ io[2].err = nil /\ IsSuccessWord(io[2].sw)
    /\ resp.out \in {<<>>, <<0>>}

\* C26 as stated: when the device answers with a success status word and no
\* payload, or with the single length byte 0, the operation that interprets
\* the payload returns an error and does not crash on an index out of range.
C26_ShortPayloadIsError ==
    ShortPayloadAnswered => (oret.err # nil /\ oret.err \notin {PanicSlice, PanicIndex})


(***************************************************************************)
(* C27 - a declared length too short for a status word                     *)
(***************************************************************************)
\* a frame of 64-byte packets whose header is intact and that declares a
\* total length of 0 or 1 has been unwrapped
ShortFrameUnwrapped ==
    /\ fpc = "done"
    /\ fmut = NoMutation
    /\ fin.size = PacketSize
    /\ Len(fdata) >= 12
    /\ Uint16(fdata, 5) \in {0, 1}

\* C27 as stated: for a first packet with valid channel, tag and sequence that
\* declares a total length of 0 or 1, unwrapResponseAPDU returns an error and
\* does not index outside the reassembled bytes.
C27_ShortLengthIsError ==
    ShortFrameUnwrapped => (funwrapped.err # nil /\ ~IsPanic(funwrapped))


(***************************************************************************)
(* C28 - a write that sent nothing                                         *)
(***************************************************************************)
\* the last event is a call of Dev.Write that reported a count of 0 or less
WroteNothing ==
    /\ io # <<>>
    /\ io[Len(io)].ev = "write"
    /\ io[Len(io)].n <= 0

\* C28 as stated: when Dev.Write reports a byte count of 0 or less, Write
\* returns an error, with or without an error value from the transport, so
\* the caller returns that error and does not go on to Read.
C28_WriteOfNothingFails ==
    WroteNothing => (pc = "idle" /\ oret.err \notin {nil, "<not returned>"})


(***************************************************************************)
(* C29 - the length byte of a command                                      *)
(***************************************************************************)
\* C29 as stated: in every command handed to Write and sent to the device the
\* fifth byte of the header is the number of payload bytes that follow the
\* header; a payload of more than 255 bytes is never sent.
C29_LengthByteExact ==
    \A i \in 1..Len(io) :
        io[i].ev = "write" =>
            /\ Len(io[i].apdu) - 5 <= 255
            /\ io[i].apdu[5] = Len(io[i].apdu) - 5


(***************************************************************************)
(* tezos-crypto.go: signGeneric, behind SignBlock, SignTransaction and the *)
(* other signing calls.  It builds the bytes to sign, calls SignBytes and  *)
(* makes its result of the signature SignBytes returned.                   *)
(***************************************************************************)
SignOutput(signedOperation, signature, edsig, err) ==
    [s1 |-> signedOperation, s2 |-> signature, s3 |-> edsig, err |-> err]

\* hex.EncodeToString
hexEncodeToString(bytes) ==
    [i \in 1..(2 * Len(bytes)) |->
        LET b == bytes[(i + 1) \div 2]
        IN HexDigits[(IF i % 2 = 1 THEN b \div 16 ELSE b % 16) + 1]]

\* base58check.Decode of the library: the bytes in front of the four
\* checksum bytes, once the checksum has been compared
base58checkDecode(input) == decode(input)

\* decodeSignature after base58check.Decode returned dec: lines 48-61; the
\* hexadecimal text has two characters per byte, and the error wrapped in
\* the else branch is the nil error of Decode
decodeSignatureOf(dec) ==
    IF dec.err # nil THEN Fail(errorsWrap(dec.err, "failed to decode signature"))
    ELSE IF 2 * Len(dec.out) > 10
    THEN Ok(SubSeq(hexEncodeToString(dec.out), 11, 2 * Len(dec.out)))
    ELSE [out |-> <<>>,
          err |-> errorsWrap(dec.err, "decoded signature is invalid length")]

\* decodeSignature, lines 45-62
decodeSignature(signature) ==
    CHOOSE r \in {decodeSignatureOf(dec) : dec \in {base58checkDecode(signature)}} : TRUE

\* the public signing calls of lines 64-86
SignNames ==
    {"SignBlock", "SignSetDelegate", "SignEndorsement", "SignNonce", "SignReveal",
     "SignTransaction"}

\* the prefix each of them hands to signGeneric
signGenericPrefix(name) ==
    CASE name = "SignBlock" -> blockprefix
      [] name = "SignEndorsement" -> endorsementprefix
      [] name \in {"SignSetDelegate", "SignNonce", "SignReveal", "SignTransaction"} ->
            genericopprefix

\* the chain id each of them hands to signGeneric: its argument, or "" where
\* it has none
signGenericChainId(o) ==
    IF o.name \in {"SignBlock", "SignEndorsement", "SignNonce"} THEN o.chainId
    ELSE <<>>

\* the bytes signGeneric hands to SignBytes, lines 91-112: the prefix, the
\* chain id when one is given, and the bytes of the operation; a panic of
\* B58cdecode ends the call
signGenericBytesOf(opPrefix, chainIdBytes, incOpBytes) ==
    IF chainIdBytes.err # nil THEN Fail(chainIdBytes.err)
    ELSE IF incOpBytes.err # nil
    THEN Fail(errorsWrap(incOpBytes.err, "failed to sign operation"))
    ELSE Ok(opPrefix \o chainIdBytes.out \o incOpBytes.out)

signGenericBytes(o) ==
    CHOOSE opBytes \in
        { signGenericBytesOf(signGenericPrefix(o.name), chainIdBytes, incOpBytes) :
             chainIdBytes \in {IF signGenericChainId(o) = <<>> THEN Ok(<<>>)
                               ELSE IF signGenericChainId(o) = MainnetChainId
                               THEN MainnetChainIdBytes
                               ELSE B58cdecode(signGenericChainId(o), networkprefix)},
             incOpBytes \in {hexDecode(o.hex)} } : TRUE

\* the signing calls made: a transaction of two bytes and one with half a
\* byte more, a block and an endorsement for the main network, a nonce
\* without a chain id, a reveal in upper-case digits, and a delegation whose
\* text is no hexadecimal
SignOperations ==
    { [name |-> "SignTransaction", chainId |-> <<>>, hlwm |-> 0,
       hex |-> <<"0", "3", "a", "b">>],
      [name |-> "SignTransaction", chainId |-> <<>>, hlwm |-> 0,
       hex |-> <<"0", "3", "a">>],
      [name |-> "SignBlock", chainId |-> MainnetChainId, hlwm |-> 0,
       hex |-> <<"1", "1", "f", "f">>],
      [name |-> "SignEndorsement", chainId |-> MainnetChainId, hlwm |-> 0,
       hex |-> <<"1", "1", "f", "f">>],
      [name |-> "SignNonce", chainId |-> <<>>, hlwm |-> 0,
       hex |-> <<"0", "5">>],
      [name |-> "SignReveal", chainId |-> <<>>, hlwm |-> 0,
       hex |-> <<"0", "A">>],
      [name |-> "SignSetDelegate", chainId |-> <<>>, hlwm |-> 0,
       hex |-> <<"0", "g">>] }

\* signGeneric is called: the bytes are built and SignBytes starts with its
\* check of BipPath
signGenericBegin(o) ==
    /\ pc = "idle"
    /\ calls < MaxCalls
    /\ calls' = calls + 1
    /\ operation' = o
    /\ io' = <<>>
    /\ resp' = Ok(<<>>)
    /\ \E opBytes \in {signGenericBytes(o)} :
          IF opBytes.err # nil
          THEN /\ pc' = "idle"
               /\ oret' = SignOutput(<<>>, <<>>, <<>>, opBytes.err)
               /\ toSign' = <<>>
               /\ sret' = NotReturned
          ELSE /\ toSign' = opBytes.out
               /\ oret' = OpNotReturned
               /\ IF Len(BipPath) = 0
                  THEN /\ pc' = "gdecode"
                       /\ sret' = [sig |-> <<>>,
                                   err |-> "No BIP Path is set; Use SetBipPath()",
                                   from |-> "check"]
                  ELSE /\ pc' = "write1"
                       /\ sret' = NotReturned
    /\ UNCHANGED <<BipPath, nonBlocking, devResp, devPending, devOut, readResult,
                   waited, otherVars>>

\* signGeneric after SignBytes returned s: lines 114-132
signGenericReturn(incOpHex, s) ==
    IF s.err # nil
    THEN SignOutput(<<>>, <<>>, <<>>, errorsWrap(s.err, "failed signer"))
    ELSE CHOOSE r \in
            { IF decodedSig.err # nil
              THEN SignOutput(<<>>, <<>>, <<>>,
                              errorsWrap(decodedSig.err, "failed to decode signed block"))
              ELSE SignOutput(incOpHex \o decodedSig.out, decodedSig.out, s.sig, nil) :
                 decodedSig \in {decodeSignature(s.sig)} } : TRUE

signGenericEnd ==
    /\ pc = "gdecode"
    /\ pc' = "idle"
    /\ oret' = signGenericReturn(operation.hex, sret)
    /\ UNCHANGED <<BipPath, nonBlocking, devResp, devPending, devOut, io, readResult,
                   waited, resp, toSign, sret, calls, operation, otherVars>>

SignNext ==
    \/ \E bipPath \in AppPaths : SetBipPath(bipPath)
    \/ \E o \in SignOperations : signGenericBegin(o)
    \/ SignBytesWrite
    \/ SignBytesSetBlocking
    \/ SignBytesRestore
    \/ DevReadPacket
    \/ DevReadNothing
    \/ DevReadFails
    \/ DeviceEmit
    \/ signGenericEnd

InitSign == AppInit /\ FrameIdle /\ B58Idle /\ PathIdle /\ SharedIdle

\* the signing calls built on SignBytes
SpecSign == InitSign /\ [][SignNext]_vars

(***************************************************************************)
(* C30 - the result of signGeneric                                         *)
(***************************************************************************)
\* signGeneric returned a result and no error
SignedWithoutError ==
    /\ pc = "idle"
    /\ operation.name \in SignNames
    /\ oret.err = nil

\* C30 as stated: a result of signGeneric returned without error has as
\* Signature the hexadecimal text, not empty, of the bytes the device returned
\* as the signature, as EDSig those bytes base-58-check encoded under the edsig
\* prefix, and as SignedOperation the operation's hexadecimal text followed by
\* Signature; when the device returned no signature bytes signGeneric returns
\* an error.
C30_SignatureOfDevice ==
    SignedWithoutError =>
        /\ resp.out # <<>>
        /\ oret.s2 # <<>>
        /\ oret.s2 = hexEncodeToString(resp.out)
        /\ oret.s3 = SignatureText(resp.out)
        /\ oret.s1 = operation.hex \o oret.s2

====
